---------------------------- MODULE Spec2Model ----------------------------
(***************************************************************************)
(* Sanctions name-matching engine of veritas (apps/api/src/services/       *)
(* sanctions): text normalisation and tokenisation, multi-strategy         *)
(* blocking, two-stage adaptive scoring, decision thresholds, and the      *)
(* service object that holds (and reloads) the matcher.                    *)
(*                                                                         *)
(* Text is a sequence of characters; a character is a one-symbol string.   *)
(* Scores are integers: a similarity ratio is a percentage 0..100, a        *)
(* composite score is in thousandths (1000 = 1.0).                         *)
(***************************************************************************)
EXTENDS Integers, Sequences, FiniteSets, TLC

\* Python's None where a string (an id, a position of a call) may stand
None == "None"

\* Python's None where a text (a sequence of characters) may stand
NoneText == <<"<None>">>

(***************************************************************************)
(* Generic sequence helpers (Python list / str primitives).                *)
(***************************************************************************)
Range(s) == {s[i] : i \in DOMAIN s}

Max(a, b) == IF a >= b THEN a ELSE b

Min(a, b) == IF a <= b THEN a ELSE b

\* Python's lst[:k]: the first k elements, all but the last -k when k < 0.
PySliceTo(s, k) ==
    LET n == IF k >= 0 THEN Min(k, Len(s)) ELSE Max(Len(s) + k, 0)
    IN  SubSeq(s, 1, n)

RECURSIVE Flatten(_)
Flatten(ss) == IF ss = <<>> THEN <<>> ELSE Head(ss) \o Flatten(Tail(ss))

\* sep.join(parts)
RECURSIVE Join(_, _)
Join(parts, sep) ==
    IF parts = <<>> THEN <<>>
    ELSE IF Len(parts) = 1 THEN parts[1]
    ELSE parts[1] \o sep \o Join(Tail(parts), sep)

\* needle in hay (Python substring test on str)
Contains(hay, needle) ==
    \E i \in 0..(Len(hay) - Len(needle)) :
        SubSeq(hay, i + 1, i + Len(needle)) = needle

(***************************************************************************)
(* Characters.  The alphabet holds one or more members of every class the  *)
(* normaliser distinguishes.                                               *)
(***************************************************************************)
LowerLetters == <<"a", "b", "c", "d", "e", "i", "l", "o", "r", "u", "x", "y">>

UpperLetters == <<"A", "B", "C", "D", "E", "I", "L", "O", "R", "U", "X", "Y">>

Digits == {"2"}

SPACE == " "

TAB == "\t"

HYPHEN == "-"

QUOTE == "'"

DOT == "."

\* U+00E9, e with acute accent (precomposed)
EACUTE == "e+acute"

\* U+0301, combining acute accent (category Mn)
COMBACUTE == "+acute"

\* U+FF21, fullwidth latin capital A (NFKC maps it to "A")
FULLWIDTH_A == "fullwidth-A"

\* U+4E2D, a CJK ideograph
CJK == "U+4E2D"

Whitespace == {SPACE, TAB}

PosIn(seq, x) == CHOOSE i \in DOMAIN seq : seq[i] = x

\* str.lower() on one character
LowerChar(c) ==
    IF c \in Range(UpperLetters) THEN LowerLetters[PosIn(UpperLetters, c)] ELSE c

\* str.upper() on one character
UpperChar(c) ==
    IF c \in Range(LowerLetters) THEN UpperLetters[PosIn(LowerLetters, c)] ELSE c

Lower(s) == [i \in DOMAIN s |-> LowerChar(s[i])]

Upper(s) == [i \in DOMAIN s |-> UpperChar(s[i])]

\* unicodedata.normalize("NFKC", .) on one character
NFKCChar(c) == IF c = FULLWIDTH_A THEN <<"A">> ELSE <<c>>

\* unicodedata.normalize("NFD", .) on one character
NFDChar(c) == IF c = EACUTE THEN <<"e", COMBACUTE>> ELSE <<c>>

\* unicodedata.category(c) == "Mn"
IsMn(c) == c = COMBACUTE

\* [a-z0-9\s-]
IsKept(c) ==
    c \in Range(LowerLetters) \cup Digits \cup Whitespace \cup {HYPHEN}

\* re.sub(r"\s+", " ", text)
RECURSIVE CollapseWs(_)
CollapseWs(s) ==
    IF s = <<>> THEN <<>>
    ELSE IF Head(s) \in Whitespace
         THEN IF Len(s) > 1 /\ s[2] \in Whitespace
              THEN CollapseWs(Tail(s))
              ELSE <<SPACE>> \o CollapseWs(Tail(s))
         ELSE <<Head(s)>> \o CollapseWs(Tail(s))

RECURSIVE LStrip(_)
LStrip(s) ==
    IF s # <<>> /\ Head(s) \in Whitespace THEN LStrip(Tail(s)) ELSE s

RECURSIVE RStrip(_)
RStrip(s) ==
    IF s # <<>> /\ s[Len(s)] \in Whitespace
    THEN RStrip(SubSeq(s, 1, Len(s) - 1))
    ELSE s

\* str.strip()
Strip(s) == RStrip(LStrip(s))

\* Whitespace collapsed and stripped before the non-latin characters become
\* spaces
normalize_text_tidy_first(text) ==
    IF text = NoneText \/ text = <<>> THEN <<>>
    ELSE LET nfkc    == Flatten([i \in DOMAIN text |-> NFKCChar(text[i])])
             lower   == Lower(nfkc)
             nfd     == Flatten([i \in DOMAIN lower |-> NFDChar(lower[i])])
             noMarks == SelectSeq(nfd, LAMBDA c : ~IsMn(c))
             noQuote == SelectSeq(noMarks, LAMBDA c : c # QUOTE)
             tidy    == Strip(CollapseWs(noQuote))
         IN  [i \in DOMAIN tidy |-> IF IsKept(tidy[i]) THEN tidy[i] ELSE SPACE]

normalize_text(text) ==
    IF text = NoneText \/ text = <<>> THEN <<>>
    ELSE LET nfkc    == Flatten([i \in DOMAIN text |-> NFKCChar(text[i])])
             lower   == Lower(nfkc)
             nfd     == Flatten([i \in DOMAIN lower |-> NFDChar(lower[i])])
             noMarks == SelectSeq(nfd, LAMBDA c : ~IsMn(c))
             noQuote == SelectSeq(noMarks, LAMBDA c : c # QUOTE)
             latin   == [i \in DOMAIN noQuote |->
                            IF IsKept(noQuote[i]) THEN noQuote[i] ELSE SPACE]
         IN  Strip(CollapseWs(latin))

STOPWORDS ==
    { <<"l","t","d">>, <<"i","n","c">>, <<"l","l","c">>, <<"c","o">>,
      <<"c","o","r","p">>, <<"s","a">>, <<"a","g">>, <<"n","v">>, <<"b","v">>,
      <<"p","l","c">>, <<"m","r">>, <<"m","r","s">>, <<"m","s">>, <<"d","r">>,
      <<"p","r","o","f">>, <<"t","h","e">>, <<"o","f">>, <<"a","n","d">>,
      <<"f","o","r">>, <<"d","e">>, <<"l","a">>, <<"e","l">>,
      <<"c","o","r","p","o","r","a","t","i","o","n">>,
      <<"c","o","m","p","a","n","y">>, <<"g","m","b","h">>,
      <<"l","i","m","i","t","e","d">> }

\* [t for t in re.split(seps+, s) if t]
RECURSIVE SplitOn(_, _, _)
SplitOn(s, seps, cur) ==
    IF s = <<>> THEN (IF cur = <<>> THEN <<>> ELSE <<cur>>)
    ELSE IF Head(s) \in seps
         THEN (IF cur = <<>> THEN <<>> ELSE <<cur>>) \o SplitOn(Tail(s), seps, <<>>)
         ELSE SplitOn(Tail(s), seps, Append(cur, Head(s)))

\* The length filter lets one-character pieces through
tokenize_keep_short(name) ==
    IF name = <<>> THEN <<>>
    ELSE LET tokens == SplitOn(name, Whitespace \cup {HYPHEN}, <<>>)
         IN  SelectSeq(tokens, LAMBDA t : Len(t) >= 1 /\ t \notin STOPWORDS)

tokenize(name) ==
    IF name = <<>> THEN <<>>
    ELSE LET tokens == SplitOn(name, Whitespace \cup {HYPHEN}, <<>>)
         IN  SelectSeq(tokens, LAMBDA t : Len(t) >= 2 /\ t \notin STOPWORDS)

(***************************************************************************)
(* matcher.py: thresholds, blocking signatures, candidate retrieval.       *)
(***************************************************************************)
IS_MATCH_THRESHOLD == 900

REVIEW_THRESHOLD == 800

\* match()'s default expand_threshold and early_exit_threshold
EXPAND_THRESHOLD == 850

EARLY_EXIT_THRESHOLD == 600

\* SanctionsQuery.__post_init__'s upper limit of top_k
MAX_TOP_K == 10

\* The thresholds compared with > instead of >=
apply_decision_threshold_strict(score) ==
    IF score > IS_MATCH_THRESHOLD THEN [is_match |-> TRUE, decision |-> "match"]
    ELSE IF score > REVIEW_THRESHOLD THEN [is_match |-> FALSE, decision |-> "review"]
    ELSE [is_match |-> FALSE, decision |-> "no_match"]

apply_decision_threshold(score) ==
    IF score >= IS_MATCH_THRESHOLD THEN [is_match |-> TRUE, decision |-> "match"]
    ELSE IF score >= REVIEW_THRESHOLD THEN [is_match |-> FALSE, decision |-> "review"]
    ELSE [is_match |-> FALSE, decision |-> "no_match"]

\* tokens[0] if tokens else None
get_first_token(tokens) == IF tokens # <<>> THEN tokens[1] ELSE NoneText

get_token_count_bucket(tokens) ==
    LET count == Len(tokens)
    IN  IF count = 1 THEN "single"
        ELSE IF count = 2 THEN "double"
        ELSE IF count <= 4 THEN "medium"
        ELSE "long"

get_initials_signature(tokens) ==
    IF tokens = <<>> THEN <<>>
    ELSE LET nonEmpty == SelectSeq(tokens, LAMBDA t : Len(t) > 0)
             initials == [i \in DOMAIN nonEmpty |-> <<nonEmpty[i][1]>>]
         IN  Join(initials, <<HYPHEN>>)

\* candidate_counts, a dict: its keys in insertion order and its values
EmptyCounts == [order |-> <<>>, count |-> <<>>]

CountOf(cc, idx) ==
    IF \E i \in DOMAIN cc.order : cc.order[i] = idx
    THEN cc.count[PosIn(cc.order, idx)]
    ELSE 0

\* An accumulation that overwrites: candidate_counts[idx] = w
RECURSIVE AddHitsOverwrite(_, _, _)
AddHitsOverwrite(cc, hits, w) ==
    IF hits = <<>> THEN cc
    ELSE LET idx == Head(hits)
             nxt == IF \E i \in DOMAIN cc.order : cc.order[i] = idx
                    THEN [cc EXCEPT !.count[PosIn(cc.order, idx)] = w]
                    ELSE [order |-> Append(cc.order, idx),
                          count |-> Append(cc.count, w)]
         IN  AddHitsOverwrite(nxt, Tail(hits), w)

\* for idx in hits: candidate_counts[idx] = candidate_counts.get(idx, 0) + w
RECURSIVE AddHits(_, _, _)
AddHits(cc, hits, w) ==
    IF hits = <<>> THEN cc
    ELSE LET idx == Head(hits)
             nxt == IF \E i \in DOMAIN cc.order : cc.order[i] = idx
                    THEN [cc EXCEPT !.count[PosIn(cc.order, idx)] = @ + w]
                    ELSE [order |-> Append(cc.order, idx),
                          count |-> Append(cc.count, w)]
         IN  AddHits(nxt, Tail(hits), w)

\* The sort without reverse=True: lowest count first
RECURSIVE SortedByCountAsc(_, _)
SortedByCountAsc(cc, levels) ==
    IF levels = {} THEN <<>>
    ELSE LET low == CHOOSE l \in levels : \A m \in levels : l <= m
             part == SelectSeq(cc.order, LAMBDA x : CountOf(cc, x) = low)
         IN  part \o SortedByCountAsc(cc, levels \ {low})

\* A descending sort that turns equal keys around
RECURSIVE SortedByCountDescTiesReversed(_, _)
SortedByCountDescTiesReversed(cc, levels) ==
    IF levels = {} THEN <<>>
    ELSE LET top == CHOOSE l \in levels : \A m \in levels : m <= l
             part == SelectSeq(cc.order, LAMBDA x : CountOf(cc, x) = top)
         IN  [i \in DOMAIN part |-> part[Len(part) + 1 - i]]
                 \o SortedByCountDescTiesReversed(cc, levels \ {top})

\* sorted(keys, key=count, reverse=True): stable, equal keys keep their order
RECURSIVE SortedByCountDesc(_, _)
SortedByCountDesc(cc, levels) ==
    IF levels = {} THEN <<>>
    ELSE LET top == CHOOSE l \in levels : \A m \in levels : m <= l
             part == SelectSeq(cc.order, LAMBDA x : CountOf(cc, x) = top)
         IN  part \o SortedByCountDesc(cc, levels \ {top})

get_candidates(query_tokens, first_token_index, bucket_index, initials_index) ==
    LET first_token == get_first_token(query_tokens)
        c1 == IF first_token # NoneText /\ first_token # <<>>
                 /\ first_token \in DOMAIN first_token_index
              THEN AddHits(EmptyCounts, first_token_index[first_token], 3)
              ELSE EmptyCounts
        bucket == get_token_count_bucket(query_tokens)
        c2 == IF bucket \in DOMAIN bucket_index
              THEN AddHits(c1, bucket_index[bucket], 1)
              ELSE c1
        initials == get_initials_signature(query_tokens)
        c3 == IF initials # <<>> /\ initials \in DOMAIN initials_index
              THEN AddHits(c2, initials_index[initials], 2)
              ELSE c2
    IN  [candidate_indices |-> SortedByCountDesc(c3, Range(c3.count)),
         priority_scores   |-> c3]

(***************************************************************************)
(* Similarity scoring.  RapidFuzz is a library outside the repository; its *)
(* three ratios are modelled on whitespace-separated words taken as atomic *)
(* symbols (the library works on characters): each ratio is the Indel      *)
(* similarity 2*LCS/(len1+len2) as a percentage, so equal non-empty        *)
(* strings score 100 on all three and the scores of a pair are a function  *)
(* of the pair alone.                                                      *)
(***************************************************************************)
Words(s) == SplitOn(s, Whitespace, <<>>)

RECURSIVE LCS(_, _)
LCS(a, b) ==
    IF a = <<>> \/ b = <<>> THEN 0
    ELSE IF Head(a) = Head(b) THEN 1 + LCS(Tail(a), Tail(b))
    ELSE Max(LCS(Tail(a), b), LCS(a, Tail(b)))

\* fuzz.ratio on two word sequences
Ratio(a, b) ==
    IF Len(a) + Len(b) = 0 THEN 100 ELSE (200 * LCS(a, b)) \div (Len(a) + Len(b))

CountIn(a, w) == Cardinality({i \in DOMAIN a : a[i] = w})

\* fuzz.token_sort_ratio: the ratio of the two sorted word lists
token_sort_ratio(s1, s2) ==
    LET a == Words(s1)
        b == Words(s2)
        common == {<<w, k>> \in Range(a) \X (1..Len(a)) :
                       k <= Min(CountIn(a, w), CountIn(b, w))}
    IN  IF Len(a) + Len(b) = 0 THEN 100
        ELSE (200 * Cardinality(common)) \div (Len(a) + Len(b))

\* fuzz.token_set_ratio: intersection and differences of the two word sets
token_set_ratio(s1, s2) ==
    LET A == Range(Words(s1))
        B == Range(Words(s2))
        sect == Cardinality(A \cap B)
        dab == Cardinality(A \ B)
        dba == Cardinality(B \ A)
    IN  IF A = {} \/ B = {} THEN 0
        ELSE IF sect > 0 /\ (dab = 0 \/ dba = 0) THEN 100
        ELSE IF sect = 0 THEN 0
        ELSE Max((200 * sect) \div (2 * sect + dab + dba),
                 Max((200 * sect) \div (2 * sect + dab),
                     (200 * sect) \div (2 * sect + dba)))

\* fuzz.partial_ratio: the best ratio of the shorter against a window of the longer
partial_ratio(s1, s2) ==
    LET a == Words(s1)
        b == Words(s2)
        short == IF Len(a) <= Len(b) THEN a ELSE b
        long == IF Len(a) <= Len(b) THEN b ELSE a
        scores == {Ratio(short, SubSeq(long, i, i + Len(short) - 1)) :
                       i \in 1..(Len(long) - Len(short) + 1)}
    IN  IF Len(long) = 0 THEN 100
        ELSE IF Len(short) = 0 THEN 0
        ELSE CHOOSE r \in scores : \A q \in scores : q <= r

compute_similarity_batch(query_norm, candidate_norms) ==
    [set_scores     |-> [i \in DOMAIN candidate_norms |->
                            token_set_ratio(query_norm, candidate_norms[i])],
     sort_scores    |-> [i \in DOMAIN candidate_norms |->
                            token_sort_ratio(query_norm, candidate_norms[i])],
     partial_scores |-> [i \in DOMAIN candidate_norms |->
                            partial_ratio(query_norm, candidate_norms[i])]]

\* The weights of the sort and the partial ratio exchanged
composite_score_batch_swapped(set_scores, sort_scores, partial_scores) ==
    [i \in DOMAIN set_scores |->
        4 * set_scores[i] + 2 * sort_scores[i] + 4 * partial_scores[i]]

\* 0.40 * set + 0.40 * sort + 0.20 * partial, in thousandths
composite_score_batch(set_scores, sort_scores, partial_scores) ==
    [i \in DOMAIN set_scores |->
        4 * set_scores[i] + 4 * sort_scores[i] + 2 * partial_scores[i]]

(***************************************************************************)
(* The reference data.  A record is one row of sanctions_index; a position *)
(* is a 0-based row number, as the blocking maps store it.                 *)
(***************************************************************************)
\* Number of records of a snapshot
NumRecords == 4

Pool ==
    << [name |-> <<"A","l"," ","B","o"," ","C","y">>,
        country |-> <<"U","K">>, program |-> <<"I","r","2">>],
       [name |-> <<"A","l"," ","B","o">>,
        country |-> <<"U","S">>, program |-> <<"C","U">>],
       [name |-> <<"A","l"," ","B","y">>,
        country |-> <<"U","K">>, program |-> NoneText],
       [name |-> <<"A","b"," ","B","o">>,
        country |-> NoneText, program |-> <<"i","r">>],
       [name |-> <<"C","y"," ","D","y">>,
        country |-> <<"U","K">>, program |-> <<"C","U">>] >>

\* The record a loader makes of pool entry k (0-based, cyclic)
PoolRecord(k) ==
    LET e == Pool[(k % Len(Pool)) + 1]
    IN  [uid |-> 100 + k, name |-> e.name, name_norm |-> normalize_text(e.name),
         country |-> e.country, program |-> e.program, source |-> "SDN"]

Positions(records) == [i \in 1..Len(records) |-> i - 1]

\* The three blocking maps built over the records' own tokenized names
BuildMaps(records) ==
    LET toks(i) == tokenize(records[i + 1].name_norm)
        live == SelectSeq(Positions(records), LAMBDA i : toks(i) # <<>>)
        by(key(_)) ==
            [k \in {key(toks(i)) : i \in Range(live)} |->
                SelectSeq(live, LAMBDA i : key(toks(i)) = k)]
    IN  [first_token_index |-> by(get_first_token),
         bucket_index      |-> by(get_token_count_bucket),
         initials_index    |-> by(get_initials_signature)]

BuiltMatcher(records, version) ==
    LET maps == BuildMaps(records)
    IN  [sanctions_index   |-> records,
         first_token_index |-> maps.first_token_index,
         bucket_index      |-> maps.bucket_index,
         initials_index    |-> maps.initials_index,
         version           |-> version]

\* Whether a matcher's maps are the ones built from its own records
IsBuilt(m) ==
    LET maps == BuildMaps(m.sanctions_index)
    IN  /\ m.first_token_index = maps.first_token_index
        /\ m.bucket_index = maps.bucket_index
        /\ m.initials_index = maps.initials_index

MatcherIds == {"m1", "m2", "m3"}

\* The matcher objects the pickle files hold: m1 a built index, m2 the same
\* records under maps with unresolvable positions (beyond either end of the
\* rows), negative and repeated positions,
\* m3 a built index over other records (a new version of the list).
Snapshot(id) ==
    LET r1 == [i \in 1..NumRecords |-> PoolRecord(i - 1)]
        r3 == [i \in 1..NumRecords |-> PoolRecord(i)]
        b1 == BuiltMatcher(r1, "v1")
    IN  IF id = "m1" THEN b1
        ELSE IF id = "m3" THEN BuiltMatcher(r3, "v3")
        ELSE [b1 EXCEPT
                 !.version = "v2",
                 !.first_token_index =
                     [k \in DOMAIN @ \cup {<<"d","y">>} |->
                         IF k = <<"d","y">>
                         THEN <<NumRecords, NumRecords + 1, -NumRecords - 1>>
                         ELSE <<NumRecords>> \o @[k] \o <<-1>>],
                 !.bucket_index =
                     [k \in DOMAIN @ |-> @[k] \o <<@[k][1]>>]]

\* sanctions_index.iloc[idx]: a row, or IndexError when idx is out of range
\* (a negative idx counts from the end)
Resolves(records, idx) == -Len(records) <= idx /\ idx < Len(records)

\* The exception the row lookup of the materializing loop raises, or None
LookupError(records, idx) == IF Resolves(records, idx) THEN None ELSE "IndexError"

\* An except clause that leaves IndexError out
CaughtKeyErrorOnly == {"KeyError"}

\* except (IndexError, KeyError): continue
CaughtExceptions == {"IndexError", "KeyError"}

iloc(records, idx) ==
    IF idx >= 0 THEN records[idx + 1] ELSE records[Len(records) + idx + 1]

(***************************************************************************)
(* SanctionsQuery and the blocks of SanctionsMatcher.match.                *)
(***************************************************************************)
\* A validation without the strip() test and with top_k 0 let through
QueryInvalidLax(name, top_k) ==
    \/ name = <<>>
    \/ top_k < 0
    \/ top_k > MAX_TOP_K

\* SanctionsQuery.__post_init__: whether construction raises ValueError
QueryInvalid(name, top_k) ==
    \/ name = <<>>
    \/ Strip(name) = <<>>
    \/ top_k < 1
    \/ top_k > MAX_TOP_K

\* A selection that takes all high-priority candidates, however many
Stage1SelectAllHigh(candidate_indices, priority_scores, initial_candidates) ==
    LET high_priority_candidates ==
            SelectSeq(candidate_indices, LAMBDA idx : CountOf(priority_scores, idx) >= 3)
        remaining_slots == initial_candidates - Len(high_priority_candidates)
        other_candidates ==
            PySliceTo(SelectSeq(candidate_indices,
                                LAMBDA idx : idx \notin Range(high_priority_candidates)),
                      remaining_slots)
    IN  IF Len(high_priority_candidates) > 0
        THEN IF remaining_slots > 0
             THEN high_priority_candidates \o other_candidates
             ELSE high_priority_candidates
        ELSE PySliceTo(candidate_indices, initial_candidates)

\* Stage 1 selection: the candidates to score first
Stage1Select(candidate_indices, priority_scores, initial_candidates) ==
    LET high_priority_candidates ==
            SelectSeq(candidate_indices, LAMBDA idx : CountOf(priority_scores, idx) >= 3)
        remaining_slots == initial_candidates - Len(high_priority_candidates)
        other_candidates ==
            PySliceTo(SelectSeq(candidate_indices,
                                LAMBDA idx : idx \notin Range(high_priority_candidates)),
                      remaining_slots)
    IN  IF Len(high_priority_candidates) > 0
        THEN IF remaining_slots > 0
             THEN high_priority_candidates \o other_candidates
             ELSE PySliceTo(high_priority_candidates, initial_candidates)
        ELSE PySliceTo(candidate_indices, initial_candidates)

\* A loop that ends at the first lookup error (break instead of continue)
ExtractCandidatesStopAtFirst(records, idxs) ==
    LET bad == {i \in DOMAIN idxs : LookupError(records, idxs[i]) # None}
        stop == IF bad = {} THEN Len(idxs) + 1
                ELSE CHOOSE i \in bad : \A j \in bad : i <= j
        ok == SubSeq(idxs, 1, stop - 1)
    IN  [raised   |-> None,
         norms    |-> [i \in DOMAIN ok |-> iloc(records, ok[i]).name_norm],
         metadata |-> [i \in DOMAIN ok |->
                         LET c == iloc(records, ok[i])
                         IN  [uid |-> c.uid, name |-> c.name, country |-> c.country,
                              program |-> c.program, source |-> c.source]],
         idx_map  |-> ok]

\* The try/except loop that materializes candidate data: an unresolvable
\* position is skipped (IndexError caught), the others keep their order.
ExtractCandidates(records, idxs) ==
    LET ok == SelectSeq(idxs, LAMBDA idx : LookupError(records, idx) = None)
        escaped == {LookupError(records, idx) : idx \in Range(idxs)}
                       \ (CaughtExceptions \cup {None})
    IN  [raised   |-> IF escaped = {} THEN None ELSE CHOOSE e \in escaped : TRUE,
         norms    |-> [i \in DOMAIN ok |-> iloc(records, ok[i]).name_norm],
         metadata |-> [i \in DOMAIN ok |->
                         LET c == iloc(records, ok[i])
                         IN  [uid |-> c.uid, name |-> c.name, country |-> c.country,
                              program |-> c.program, source |-> c.source]],
         idx_map  |-> ok]

\* float(np.max(composite_scores)) if len(composite_scores) > 0 else 0.0
TopScore(composite_scores) ==
    IF Len(composite_scores) = 0 THEN 0
    ELSE CHOOSE x \in Range(composite_scores) :
             \A y \in Range(composite_scores) : y <= x

\* A condition without the early-exit floor
ShouldExpandNoFloor(top_score, candidate_indices, initial_candidates) ==
    /\ top_score < EXPAND_THRESHOLD
    /\ Len(candidate_indices) > initial_candidates

\* The condition that opens Stage 2
ShouldExpand(top_score, candidate_indices, initial_candidates) ==
    /\ top_score >= EARLY_EXIT_THRESHOLD
    /\ top_score < EXPAND_THRESHOLD
    /\ Len(candidate_indices) > initial_candidates

\* A Stage 2 selection that takes the ranked list from its start again
Stage2SelectFromStart(candidate_indices, candidate_idx_map, max_candidates) ==
    PySliceTo(candidate_indices, max_candidates - Len(candidate_idx_map))

\* Stage 2 selection: the candidates not scored yet, up to max_candidates
Stage2Select(candidate_indices, candidate_idx_map, max_candidates) ==
    PySliceTo(SelectSeq(candidate_indices,
                        LAMBDA idx : idx \notin Range(candidate_idx_map)),
              max_candidates - Len(candidate_idx_map))

\* A ranking that keeps the list order (the sort left out)
ArgsortDescUnsorted(scores, left) == [i \in 1..Cardinality(left) |-> i]

\* np.argsort(composite_scores)[::-1], as 1-based list indices: descending
\* scores; argsort's ascending order keeps equal scores in list order (the
\* insertion sort NumPy uses on short arrays), so the reversal puts the
\* later of two equal scores first.
RECURSIVE ArgsortDesc(_, _)
ArgsortDesc(scores, left) ==
    IF left = {} THEN <<>>
    ELSE LET best == CHOOSE i \in left :
                        \A j \in left : \/ scores[j] < scores[i]
                                         \/ (scores[j] = scores[i] /\ j <= i)
         IN  <<best>> \o ArgsortDesc(scores, left \ {best})

\* The filters without the country test
PassesFiltersNoCountry(query, metadata) ==
    \/ query.program = NoneText
    \/ query.program = <<>>
    \/ LET program_str == IF metadata.program # NoneText /\ metadata.program # <<>>
                          THEN metadata.program ELSE <<>>
       IN  Contains(Upper(program_str), Upper(query.program))

\* The filters without the program test
PassesFiltersNoProgram(query, metadata) ==
    ~(query.country # NoneText /\ query.country # <<>>
      /\ metadata.country # query.country)

\* The two filters of the ranking loop: whether candidate metadata passes
PassesFilters(query, metadata) ==
    /\ ~(query.country # NoneText /\ query.country # <<>>
          /\ metadata.country # query.country)
    /\ \/ query.program = NoneText
       \/ query.program = <<>>
       \/ LET program_str == IF metadata.program # NoneText /\ metadata.program # <<>>
                             THEN metadata.program ELSE <<>>
          IN  Contains(Upper(program_str), Upper(query.program))

MakeMatch(metadata, score, sim_set, sim_sort, sim_partial) ==
    LET d == apply_decision_threshold(score)
    IN  [matched_name |-> metadata.name, score |-> score,
         is_match |-> d.is_match, decision |-> d.decision,
         country |-> metadata.country, program |-> metadata.program,
         source |-> metadata.source, uid |-> metadata.uid,
         sim_set |-> sim_set, sim_sort |-> sim_sort, sim_partial |-> sim_partial]

\* A ranking loop without the top_k stop
BuildMatchesNoStop(sorted_indices, query, l, matches) ==
    LET kept == SelectSeq(sorted_indices,
                          LAMBDA i : PassesFilters(query, l.candidate_metadata[i]))
    IN  [k \in DOMAIN kept |->
            MakeMatch(l.candidate_metadata[kept[k]], l.composite_scores[kept[k]],
                      l.set_scores[kept[k]], l.sort_scores[kept[k]],
                      l.partial_scores[kept[k]])]

\* A ranking loop that cuts the ranking to top_k before it filters
BuildMatchesCutFirst(sorted_indices, query, l, matches) ==
    BuildMatchesNoStop(SelectSeq(sorted_indices,
                                 LAMBDA i : \E k \in 1..query.top_k :
                                                k <= Len(sorted_indices)
                                                    /\ sorted_indices[k] = i),
                       query, l, matches)

\* A ranking loop that ends at the first filtered-out candidate (break
\* instead of continue)
RECURSIVE BuildMatchesStopOnReject(_, _, _, _)
BuildMatchesStopOnReject(sorted_indices, query, l, matches) ==
    IF sorted_indices = <<>> \/ Len(matches) >= query.top_k THEN matches
    ELSE LET i == Head(sorted_indices)
         IN  IF PassesFilters(query, l.candidate_metadata[i])
             THEN BuildMatchesStopOnReject(Tail(sorted_indices), query, l,
                      Append(matches,
                             MakeMatch(l.candidate_metadata[i], l.composite_scores[i],
                                       l.set_scores[i], l.sort_scores[i],
                                       l.partial_scores[i])))
             ELSE matches

\* The ranking loop: walk sorted_indices, stop at top_k matches
RECURSIVE BuildMatches(_, _, _, _)
BuildMatches(sorted_indices, query, l, matches) ==
    IF sorted_indices = <<>> \/ Len(matches) >= query.top_k THEN matches
    ELSE LET i == Head(sorted_indices)
         IN  IF PassesFilters(query, l.candidate_metadata[i])
             THEN BuildMatches(Tail(sorted_indices), query, l,
                      Append(matches,
                             MakeMatch(l.candidate_metadata[i], l.composite_scores[i],
                                       l.set_scores[i], l.sort_scores[i],
                                       l.partial_scores[i])))
             ELSE BuildMatches(Tail(sorted_indices), query, l, matches)

SanctionsResponse(query, top_matches, version) ==
    [query |-> query.name, top_matches |-> top_matches,
     applied_filters |-> [country |-> query.country, program |-> query.program],
     version |-> version]

(***************************************************************************)
(* State.                                                                  *)
(***************************************************************************)
Procs == {"p1", "p2"}

VARIABLES
    matchers,   \* the heap: matcher id -> SanctionsMatcher object
    svc,        \* SanctionsScreeningService: _matcher, _loaded, _record_count, _version
    load_pc,    \* None, or the id initialize() has assigned and not yet accounted
    pc,         \* per caller: where its call stands
    ctor,       \* per caller: the last SanctionsQuery(...) call and whether it raised
    query,      \* per caller: the SanctionsQuery object
    lim,        \* per caller: match()'s initial_candidates and max_candidates
    self,       \* per caller: the matcher object its match() runs on
    loc,        \* per caller: match()'s local variables
    response,   \* per caller: the SanctionsResponse returned
    scr,        \* the screen_name request in progress: arguments, locals, result
    fn          \* a direct call of one of the module-level functions:
                \* its arguments and, once it has returned, its result

vars == <<matchers, svc, load_pc, pc, ctor, query, lim, self, loc, response, scr, fn>>

Snapshots == [id \in MatcherIds |-> Snapshot(id)]

MapsOf(m) ==
    [first_token_index |-> m.first_token_index,
     bucket_index      |-> m.bucket_index,
     initials_index    |-> m.initials_index]

NoQuery == [name |-> <<>>, country |-> NoneText, program |-> NoneText, top_k |-> 0]

\* No constructor call yet (raised: "no call", "ValueError", or None)
NoCtor == [name |-> <<>>, top_k |-> 0, raised |-> "no call"]

NoLimits == [initial_candidates |-> 0, max_candidates |-> 0]

EmptyLoc ==
    [query_norm |-> <<>>, query_tokens |-> <<>>,
     candidate_indices |-> <<>>, priority_scores |-> EmptyCounts,
     candidates_to_score |-> <<>>, additional_candidates |-> <<>>,
     candidate_idx_map |-> <<>>, candidate_metadata |-> <<>>,
     set_scores |-> <<>>, sort_scores |-> <<>>, partial_scores |-> <<>>,
     composite_scores |-> <<>>, top_score |-> 0,
     matches |-> <<>>,
     \* history of the call, not program state
     phases |-> <<>>, read_records |-> {}, read_maps |-> {},
     overlapped |-> FALSE, swapped |-> FALSE]

NoResponse ==
    [query |-> <<>>, top_matches |-> <<>>,
     applied_filters |-> [country |-> NoneText, program |-> NoneText],
     version |-> None]

\* aliases = None
NoneList == <<NoneText>>

\* No SanctionsScreeningResult yet.  An Optional object is a sequence of at
\* most one element: data and top_match are <<>> for None.
NoResult == [returned |-> FALSE, success |-> FALSE, errors |-> <<>>,
             data |-> <<>>, confidence |-> 0]

\* No screen_name request in progress
NoScreen ==
    [pc |-> "idle", name |-> <<>>, aliases |-> NoneList, nationality |-> NoneText,
     top_k |-> 0, k |-> 0, all_matches |-> <<>>,
     \* history of the request, not program state: the names match() ran on
     \* and the top_matches each call returned
     calls |-> <<>>, responses |-> <<>>,
     result |-> NoResult]

\* No direct function call
NoFn == [op |-> "none", pc |-> "none"]

\* The service and its callers after construction
ServiceInit ==
    /\ matchers = Snapshots
    /\ svc = [matcher |-> None, loaded |-> FALSE, record_count |-> 0,
              version |-> "unknown"]
    /\ load_pc = None
    /\ pc = [p \in Procs |-> "idle"]
    /\ ctor = [p \in Procs |-> NoCtor]
    /\ query = [p \in Procs |-> NoQuery]
    /\ lim = [p \in Procs |-> NoLimits]
    /\ self = [p \in Procs |-> None]
    /\ loc = [p \in Procs |-> EmptyLoc]
    /\ response = [p \in Procs |-> NoResponse]
    /\ scr = NoScreen

Init == ServiceInit /\ fn = NoFn

(***************************************************************************)
(* SanctionsScreeningService.initialize                                    *)
(***************************************************************************)
\* A reload that rebuilds the held matcher in place, the record table first
InitializeLoadInPlace(id) ==
    /\ load_pc = None
    /\ IF svc.matcher = None
       THEN /\ svc' = [svc EXCEPT !.matcher = id]
            /\ UNCHANGED matchers
       ELSE /\ matchers' = [matchers EXCEPT ![svc.matcher].sanctions_index =
                                              Snapshots[id].sanctions_index]
            /\ UNCHANGED svc
    /\ load_pc' = id
    /\ UNCHANGED <<pc, ctor, query, lim, self, loc, response, scr, fn>>

\* pickle.load succeeded: self._matcher = <the new object> (one assignment)
InitializeLoad(id) ==
    /\ load_pc = None
    /\ svc' = [svc EXCEPT !.matcher = id]
    /\ load_pc' = id
    /\ UNCHANGED <<matchers, pc, ctor, query, lim, self, loc, response, scr, fn>>

\* the assignments that follow: _loaded, _record_count, _version
InitializeFinish ==
    /\ load_pc # None
    /\ svc' = [svc EXCEPT !.loaded = TRUE,
                          !.record_count = Len(matchers[svc.matcher].sanctions_index),
                          !.version = matchers[svc.matcher].version]
    /\ load_pc' = None
    /\ UNCHANGED <<matchers, pc, ctor, query, lim, self, loc, response, scr, fn>>

\* pickle.load raised: the except branch sets _loaded = False
InitializeFail ==
    /\ load_pc = None
    /\ svc' = [svc EXCEPT !.loaded = FALSE]
    /\ UNCHANGED <<matchers, load_pc, pc, ctor, query, lim, self, loc, response, scr, fn>>

(***************************************************************************)
(* A caller: SanctionsQuery(...), then matcher.match(query, ...).          *)
(***************************************************************************)
\* SanctionsQuery(name, country, program, top_k): __post_init__ validates
NewQuery(p, name, country, program, top_k) ==
    /\ pc[p] = "idle"
    /\ IF QueryInvalid(name, top_k)
       THEN /\ ctor' = [ctor EXCEPT ![p] =
                          [name |-> name, top_k |-> top_k, raised |-> "ValueError"]]
            /\ UNCHANGED <<pc, query>>
       ELSE /\ ctor' = [ctor EXCEPT ![p] =
                          [name |-> name, top_k |-> top_k, raised |-> None]]
            /\ query' = [query EXCEPT ![p] =
                          [name |-> name, country |-> country, program |-> program,
                           top_k |-> top_k]]
            /\ pc' = [pc EXCEPT ![p] = "ready"]
    /\ UNCHANGED <<matchers, svc, load_pc, lim, self, loc, response, scr, fn>>

\* An exception leaves match(): no response
Raise(p, l) ==
    /\ loc' = [loc EXCEPT ![p] = l]
    /\ pc' = [pc EXCEPT ![p] = "raised"]
    /\ UNCHANGED response

\* An early return of match(): a response without matches
ReturnEmpty(p, l, m) ==
    /\ loc' = [loc EXCEPT ![p] = l]
    /\ response' = [response EXCEPT ![p] = SanctionsResponse(query[p], <<>>, m.version)]
    /\ pc' = [pc EXCEPT ![p] = "done"]

\* The call self._matcher.match(query, ...) and its first block:
\* normalize and tokenize the query name
MatchBegin(p, initial_candidates, max_candidates) ==
    /\ pc[p] = "ready"
    /\ svc.matcher # None
    /\ self' = [self EXCEPT ![p] = svc.matcher]
    /\ lim' = [lim EXCEPT ![p] = [initial_candidates |-> initial_candidates,
                                   max_candidates |-> max_candidates]]
    /\ LET m == matchers[svc.matcher]
           query_norm == normalize_text(query[p].name)
           query_tokens == tokenize(query_norm)
           l == [EmptyLoc EXCEPT !.query_norm = query_norm,
                                 !.query_tokens = query_tokens,
                                 !.phases = <<"tokenize">>]
       IN  IF query_tokens = <<>>
           THEN ReturnEmpty(p, l, m)
           ELSE /\ loc' = [loc EXCEPT ![p] = l]
                /\ pc' = [pc EXCEPT ![p] = "retrieve"]
                /\ UNCHANGED response
    /\ UNCHANGED <<matchers, svc, load_pc, ctor, query, scr, fn>>

\* History: another caller is inside match() on the same matcher object
Overlaps(p) ==
    \E q \in Procs \ {p} :
        /\ pc[q] \in {"retrieve", "stage1", "decide", "rank", "emit"}
        /\ self[q] = self[p]

\* History: the service holds another matcher than the one this call runs on
Swapped(p) == svc.matcher # self[p]

\* A retrieval that takes the first-token list by reference and extends it
\* with the bucket hits, so the matcher's own map grows
RetrieveInPlace(p) ==
    /\ pc[p] = "retrieve"
    /\ LET m == matchers[self[p]]
           got == get_candidates(loc[p].query_tokens, m.first_token_index,
                                 m.bucket_index, m.initials_index)
           first_token == get_first_token(loc[p].query_tokens)
           bucket == get_token_count_bucket(loc[p].query_tokens)
           l == [loc[p] EXCEPT !.candidate_indices = got.candidate_indices,
                               !.priority_scores = got.priority_scores,
                               !.phases = Append(@, "retrieve"),
                               !.read_maps = @ \cup {MapsOf(m)},
                               !.overlapped = @ \/ Overlaps(p)]
       IN  /\ matchers' =
                 IF first_token \in DOMAIN m.first_token_index
                    /\ bucket \in DOMAIN m.bucket_index
                 THEN [matchers EXCEPT ![self[p]].first_token_index[first_token] =
                                           @ \o m.bucket_index[bucket]]
                 ELSE matchers
           /\ IF got.candidate_indices = <<>>
              THEN ReturnEmpty(p, l, m)
              ELSE /\ loc' = [loc EXCEPT ![p] = l]
                   /\ pc' = [pc EXCEPT ![p] = "stage1"]
                   /\ UNCHANGED response
    /\ UNCHANGED <<svc, load_pc, ctor, query, lim, self, scr, fn>>

\* get_candidates over the matcher's three blocking maps
Retrieve(p) ==
    /\ pc[p] = "retrieve"
    /\ LET m == matchers[self[p]]
           got == get_candidates(loc[p].query_tokens, m.first_token_index,
                                 m.bucket_index, m.initials_index)
           l == [loc[p] EXCEPT !.candidate_indices = got.candidate_indices,
                               !.priority_scores = got.priority_scores,
                               !.phases = Append(@, "retrieve"),
                               !.read_maps = @ \cup {MapsOf(m)},
                               !.overlapped = @ \/ Overlaps(p)]
       IN  IF got.candidate_indices = <<>>
           THEN ReturnEmpty(p, l, m)
           ELSE /\ loc' = [loc EXCEPT ![p] = l]
                /\ pc' = [pc EXCEPT ![p] = "stage1"]
                /\ UNCHANGED response
    /\ UNCHANGED <<matchers, svc, load_pc, ctor, query, lim, self, scr, fn>>

\* Stage 1: select, materialize and score the first candidates
Stage1(p) ==
    /\ pc[p] = "stage1"
    /\ LET m == matchers[self[p]]
           candidates_to_score ==
               Stage1Select(loc[p].candidate_indices, loc[p].priority_scores,
                            lim[p].initial_candidates)
           ex == ExtractCandidates(m.sanctions_index, candidates_to_score)
           sim == compute_similarity_batch(loc[p].query_norm, ex.norms)
           composite_scores ==
               composite_score_batch(sim.set_scores, sim.sort_scores, sim.partial_scores)
           l0 == [loc[p] EXCEPT !.candidates_to_score = candidates_to_score,
                                !.phases = Append(@, "stage1"),
                                !.read_records = @ \cup {m.sanctions_index},
                                !.overlapped = @ \/ Overlaps(p),
                                !.swapped = @ \/ Swapped(p)]
           l == [l0 EXCEPT !.candidate_idx_map = ex.idx_map,
                           !.candidate_metadata = ex.metadata,
                           !.set_scores = sim.set_scores,
                           !.sort_scores = sim.sort_scores,
                           !.partial_scores = sim.partial_scores,
                           !.composite_scores = composite_scores,
                           !.top_score = TopScore(composite_scores)]
       IN  IF ex.raised # None THEN Raise(p, l0)
           ELSE IF ex.norms = <<>> THEN ReturnEmpty(p, l0, m)
           ELSE /\ loc' = [loc EXCEPT ![p] = l]
                /\ pc' = [pc EXCEPT ![p] = "decide"]
                /\ UNCHANGED response
    /\ UNCHANGED <<matchers, svc, load_pc, ctor, query, lim, self, scr, fn>>

\* Stage 2: materialize and score more candidates, append them to the lists
Stage2(p) ==
    /\ pc[p] = "decide"
    /\ ShouldExpand(loc[p].top_score, loc[p].candidate_indices,
                    lim[p].initial_candidates)
    /\ LET m == matchers[self[p]]
           additional_candidates ==
               Stage2Select(loc[p].candidate_indices, loc[p].candidate_idx_map,
                            lim[p].max_candidates)
           ex == ExtractCandidates(m.sanctions_index, additional_candidates)
           sim == compute_similarity_batch(loc[p].query_norm, ex.norms)
           add_composite_scores ==
               composite_score_batch(sim.set_scores, sim.sort_scores, sim.partial_scores)
           l0 == [loc[p] EXCEPT !.additional_candidates = additional_candidates,
                                !.phases = Append(@, "stage2"),
                                !.read_records = @ \cup {m.sanctions_index},
                                !.overlapped = @ \/ Overlaps(p),
                                !.swapped = @ \/ Swapped(p)]
       IN  IF ex.raised # None THEN Raise(p, l0)
           ELSE /\ loc' = [loc EXCEPT ![p] =
                     IF ex.norms = <<>> THEN l0
                     ELSE [l0 EXCEPT
                              !.candidate_idx_map = @ \o ex.idx_map,
                              !.candidate_metadata = @ \o ex.metadata,
                              !.set_scores = @ \o sim.set_scores,
                              !.sort_scores = @ \o sim.sort_scores,
                              !.partial_scores = @ \o sim.partial_scores,
                              !.composite_scores = @ \o add_composite_scores]]
                /\ pc' = [pc EXCEPT ![p] = "rank"]
                /\ UNCHANGED response
    /\ UNCHANGED <<matchers, svc, load_pc, ctor, query, lim, self, scr, fn>>

\* The Stage 2 condition is false: go on to the ranking
SkipStage2(p) ==
    /\ pc[p] = "decide"
    /\ ~ShouldExpand(loc[p].top_score, loc[p].candidate_indices,
                     lim[p].initial_candidates)
    /\ pc' = [pc EXCEPT ![p] = "rank"]
    /\ UNCHANGED <<matchers, svc, load_pc, ctor, query, lim, self, loc, response, scr, fn>>

\* Rank and filter: sort by composite score, build up to top_k matches
Rank(p) ==
    /\ pc[p] = "rank"
    /\ LET sorted_indices ==
               ArgsortDesc(loc[p].composite_scores, DOMAIN loc[p].composite_scores)
       IN  loc' = [loc EXCEPT ![p] =
                     [loc[p] EXCEPT
                         !.matches = BuildMatches(sorted_indices, query[p], loc[p], <<>>),
                         !.phases = Append(@, "rank")]]
    /\ pc' = [pc EXCEPT ![p] = "emit"]
    /\ UNCHANGED <<matchers, svc, load_pc, ctor, query, lim, self, response, scr, fn>>

\* A return that goes back to the ranking instead of leaving match()
EmitRetry(p) ==
    /\ pc[p] = "emit"
    /\ pc' = [pc EXCEPT ![p] = "rank"]
    /\ loc' = [loc EXCEPT ![p].phases = SubSeq(@, 1, Len(@) - 1)]
    /\ UNCHANGED <<matchers, svc, load_pc, ctor, query, lim, self, response, scr, fn>>

\* Emit: the final return of match()
Emit(p) ==
    /\ pc[p] = "emit"
    /\ response' = [response EXCEPT ![p] =
                      SanctionsResponse(query[p], loc[p].matches,
                                        matchers[self[p]].version)]
    /\ loc' = [loc EXCEPT ![p].phases = Append(@, "emit")]
    /\ pc' = [pc EXCEPT ![p] = "done"]
    /\ UNCHANGED <<matchers, svc, load_pc, ctor, query, lim, self, scr, fn>>

\* The caller has its response and drops the call's objects
Finish(p) ==
    /\ pc[p] \in {"done", "raised"}
    /\ pc' = [pc EXCEPT ![p] = "idle"]
    /\ ctor' = [ctor EXCEPT ![p] = NoCtor]
    /\ query' = [query EXCEPT ![p] = NoQuery]
    /\ lim' = [lim EXCEPT ![p] = NoLimits]
    /\ self' = [self EXCEPT ![p] = None]
    /\ loc' = [loc EXCEPT ![p] = EmptyLoc]
    /\ response' = [response EXCEPT ![p] = NoResponse]
    /\ UNCHANGED <<matchers, svc, load_pc, scr, fn>>

\* match(query, initial_candidates, max_candidates) on matcher m, run alone
\* from call to return: the response it returns
MatchAlone(q, lm, m) ==
    LET query_norm == normalize_text(q.name)
        query_tokens == tokenize(query_norm)
        got == get_candidates(query_tokens, m.first_token_index,
                              m.bucket_index, m.initials_index)
        ex == ExtractCandidates(m.sanctions_index,
                  Stage1Select(got.candidate_indices, got.priority_scores,
                               lm.initial_candidates))
        sim == compute_similarity_batch(query_norm, ex.norms)
        composite_scores ==
            composite_score_batch(sim.set_scores, sim.sort_scores, sim.partial_scores)
        ex2 == ExtractCandidates(m.sanctions_index,
                   Stage2Select(got.candidate_indices, ex.idx_map, lm.max_candidates))
        sim2 == compute_similarity_batch(query_norm, ex2.norms)
        expand == /\ ShouldExpand(TopScore(composite_scores), got.candidate_indices,
                                  lm.initial_candidates)
                  /\ ex2.norms # <<>>
        l == IF expand
             THEN [EmptyLoc EXCEPT
                      !.candidate_metadata = ex.metadata \o ex2.metadata,
                      !.set_scores = sim.set_scores \o sim2.set_scores,
                      !.sort_scores = sim.sort_scores \o sim2.sort_scores,
                      !.partial_scores = sim.partial_scores \o sim2.partial_scores,
                      !.composite_scores = composite_scores \o
                          composite_score_batch(sim2.set_scores, sim2.sort_scores,
                                                sim2.partial_scores)]
             ELSE [EmptyLoc EXCEPT
                      !.candidate_metadata = ex.metadata,
                      !.set_scores = sim.set_scores,
                      !.sort_scores = sim.sort_scores,
                      !.partial_scores = sim.partial_scores,
                      !.composite_scores = composite_scores]
    IN  IF query_tokens = <<>> \/ got.candidate_indices = <<>> \/ ex.norms = <<>>
        THEN SanctionsResponse(q, <<>>, m.version)
        ELSE SanctionsResponse(q,
                 BuildMatches(ArgsortDesc(l.composite_scores, DOMAIN l.composite_scores),
                              q, l, <<>>),
                 m.version)

(***************************************************************************)
(* SanctionsScreeningService.screen_name: the primary name and up to five  *)
(* aliases are matched with match()'s default limits, the matches merged   *)
(* by uid, and an overall decision derived.                                *)
(***************************************************************************)
INITIAL_CANDIDATES == 2000

MAX_CANDIDATES == 3000

MAX_ALIASES == 5

DefaultLimits ==
    [initial_candidates |-> INITIAL_CANDIDATES, max_candidates |-> MAX_CANDIDATES]

\* The is_loaded property
is_loaded == svc.loaded /\ svc.matcher # None

\* get_status() with SANCTIONS_ENABLED set (the default)
get_status ==
    IF ~is_loaded
    THEN [status |-> "unavailable", loaded |-> FALSE, record_count |-> 0,
          version |-> "not_loaded"]
    ELSE [status |-> "healthy", loaded |-> TRUE,
          record_count |-> svc.record_count, version |-> svc.version]

\* aliases[:5] when aliases is neither None nor empty
AliasesToScreen(aliases) ==
    IF aliases = NoneList \/ aliases = <<>> THEN <<>>
    ELSE PySliceTo(aliases, MAX_ALIASES)

\* sorted(all_matches, key=lambda m: m.score, reverse=True): a stable sort,
\* so element i lands after every element of higher score and every earlier
\* element of equal score
SortedByScoreDesc(all_matches) ==
    LET before(i) == {j \in DOMAIN all_matches :
                        \/ all_matches[j].score > all_matches[i].score
                        \/ /\ all_matches[j].score = all_matches[i].score
                           /\ j < i}
    IN  [k \in DOMAIN all_matches |->
            all_matches[CHOOSE i \in DOMAIN all_matches : Cardinality(before(i)) = k - 1]]

\* A merge loop without the seen_uids test
RECURSIVE DeduplicateKeepAll(_, _, _, _)
DeduplicateKeepAll(sorted, seen_uids, unique_matches, top_k) ==
    IF sorted = <<>> THEN unique_matches
    ELSE IF Len(unique_matches) + 1 >= top_k
         THEN Append(unique_matches, Head(sorted))
         ELSE DeduplicateKeepAll(Tail(sorted), seen_uids,
                                 Append(unique_matches, Head(sorted)), top_k)

\* The deduplication loop: the first match of each uid, until top_k are kept
RECURSIVE Deduplicate(_, _, _, _)
Deduplicate(sorted, seen_uids, unique_matches, top_k) ==
    IF sorted = <<>> THEN unique_matches
    ELSE LET match == Head(sorted)
         IN  IF match.uid \notin seen_uids
             THEN IF Len(unique_matches) + 1 >= top_k
                  THEN Append(unique_matches, match)
                  ELSE Deduplicate(Tail(sorted), seen_uids \cup {match.uid},
                                   Append(unique_matches, match), top_k)
             ELSE Deduplicate(Tail(sorted), seen_uids, unique_matches, top_k)

SanctionsMatchData(m) ==
    [matched_name |-> m.matched_name, score |-> m.score, decision |-> m.decision,
     country |-> m.country, program |-> m.program, source |-> m.source,
     uid |-> m.uid,
     similarity_details |-> [sim_set |-> m.sim_set, sim_sort |-> m.sim_sort,
                             sim_partial |-> m.sim_partial]]

\* An overall decision taken from the last of the merged matches
OverallDecisionLast(match_data) ==
    IF match_data # <<>> /\ match_data[Len(match_data)].decision = "match"
    THEN [decision |-> "match", is_match |-> TRUE]
    ELSE IF match_data # <<>> /\ match_data[Len(match_data)].decision = "review"
    THEN [decision |-> "review", is_match |-> FALSE]
    ELSE [decision |-> "no_match", is_match |-> FALSE]

\* The overall decision, from the first of the merged matches
OverallDecision(match_data) ==
    IF match_data # <<>> /\ match_data[1].decision = "match"
    THEN [decision |-> "match", is_match |-> TRUE]
    ELSE IF match_data # <<>> /\ match_data[1].decision = "review"
    THEN [decision |-> "review", is_match |-> FALSE]
    ELSE [decision |-> "no_match", is_match |-> FALSE]

\* The result of a screening that ran to its end
SuccessResult(name, nationality, all_matches, top_k) ==
    LET unique_matches ==
            Deduplicate(SortedByScoreDesc(all_matches), {}, <<>>, top_k)
        match_data == [i \in DOMAIN unique_matches |->
                          SanctionsMatchData(unique_matches[i])]
        top_match == IF match_data # <<>> THEN <<match_data[1]>> ELSE <<>>
        overall == OverallDecision(match_data)
    IN  [returned |-> TRUE, success |-> TRUE, errors |-> <<>>,
         data |-> << [query_name |-> name,
                      query_normalized |-> normalize_text(name),
                      is_match |-> overall.is_match,
                      decision |-> overall.decision,
                      top_match |-> top_match,
                      all_matches |-> match_data,
                      applied_filters |-> [country |-> nationality,
                                           program |-> NoneText]] >>,
         confidence |-> IF top_match # <<>> THEN top_match[1].score ELSE 0]

\* The result of the not-loaded return and of the except branch
FailureResult(error) ==
    [returned |-> TRUE, success |-> FALSE, errors |-> <<error>>,
     data |-> <<>>, confidence |-> 0]

\* The name the request is at: the primary name, then aliases[:5] in order
CurrentName == IF scr.k = 0 THEN scr.name ELSE AliasesToScreen(scr.aliases)[scr.k]

\* screen_name is called: the is_loaded test
ScreenName(name, aliases, nationality, top_k) ==
    /\ scr.pc = "idle"
    /\ LET s0 == [NoScreen EXCEPT !.name = name, !.aliases = aliases,
                                  !.nationality = nationality, !.top_k = top_k]
       IN  IF ~is_loaded
           THEN scr' = [s0 EXCEPT !.pc = "done",
                           !.result = FailureResult("Sanctions screener not loaded")]
           ELSE scr' = [s0 EXCEPT !.pc = "construct"]
    /\ UNCHANGED <<matchers, svc, load_pc, pc, ctor, query, lim, self, loc, response, fn>>

\* SanctionsQuery(name=..., country=nationality, top_k=top_k) for the primary
\* name or the next alias; a ValueError lands in the except branch
ScreenQuery(p) ==
    /\ scr.pc = "construct"
    /\ pc[p] = "idle"
    /\ IF QueryInvalid(CurrentName, scr.top_k)
       THEN /\ ctor' = [ctor EXCEPT ![p] = [name |-> CurrentName, top_k |-> scr.top_k,
                                            raised |-> "ValueError"]]
            /\ scr' = [scr EXCEPT !.pc = "done", !.result = FailureResult("ValueError")]
            /\ UNCHANGED <<pc, query>>
       ELSE /\ ctor' = [ctor EXCEPT ![p] = [name |-> CurrentName, top_k |-> scr.top_k,
                                            raised |-> None]]
            /\ query' = [query EXCEPT ![p] =
                          [name |-> CurrentName, country |-> scr.nationality,
                           program |-> NoneText, top_k |-> scr.top_k]]
            /\ pc' = [pc EXCEPT ![p] = "ready"]
            /\ scr' = [scr EXCEPT !.pc = "match"]
    /\ UNCHANGED <<matchers, svc, load_pc, lim, self, loc, response, fn>>

\* self._matcher.match(query) has returned: all_matches takes its top_matches,
\* and the loop goes on to the next alias or ends; an exception out of
\* match() lands in the except branch
ScreenCollect(p) ==
    /\ scr.pc = "match"
    /\ pc[p] \in {"done", "raised"}
    /\ scr' = IF pc[p] = "raised"
              THEN [scr EXCEPT !.pc = "done", !.result = FailureResult("Exception")]
              ELSE [scr EXCEPT
                       !.pc = IF scr.k < Len(AliasesToScreen(scr.aliases))
                              THEN "construct" ELSE "merge",
                       !.k = @ + 1,
                       !.all_matches = @ \o response[p].top_matches,
                       !.calls = Append(@, query[p].name),
                       !.responses = Append(@, response[p].top_matches)]
    /\ pc' = [pc EXCEPT ![p] = "idle"]
    /\ ctor' = [ctor EXCEPT ![p] = NoCtor]
    /\ query' = [query EXCEPT ![p] = NoQuery]
    /\ lim' = [lim EXCEPT ![p] = NoLimits]
    /\ self' = [self EXCEPT ![p] = None]
    /\ loc' = [loc EXCEPT ![p] = EmptyLoc]
    /\ response' = [response EXCEPT ![p] = NoResponse]
    /\ UNCHANGED <<matchers, svc, load_pc, fn>>

\* After the alias loop: deduplicate, decide, return
ScreenMerge ==
    /\ scr.pc = "merge"
    /\ scr' = [scr EXCEPT !.pc = "done",
                          !.result = SuccessResult(scr.name, scr.nationality,
                                                   scr.all_matches, scr.top_k)]
    /\ UNCHANGED <<matchers, svc, load_pc, pc, ctor, query, lim, self, loc, response, fn>>

\* The caller has the result and drops the request
ScreenFinish ==
    /\ scr.pc = "done"
    /\ scr' = NoScreen
    /\ ctor' = [p \in Procs |-> NoCtor]
    /\ UNCHANGED <<matchers, svc, load_pc, pc, query, lim, self, loc, response, fn>>

(***************************************************************************)
(* Inputs and specifications.                                              *)
(***************************************************************************)
QueryNames ==
    { <<>>, <<" ", TAB>>, <<CJK>>,
      <<"A","l"," ","B","o">>, <<"a","l"," ","b","y">>, <<"a","l">>, <<"d","y">>,
      <<"a","b"," ","a","l">>, <<"b","o"," ","a","l">>,
      <<"a","l"," ","d","y"," ","c","y">> }

Countries == {NoneText, <<"U","K">>}

Programs == {NoneText, <<"i","R">>}

TopKs == {0, 1, 2, MAX_TOP_K, MAX_TOP_K + 1}

\* <<initial_candidates, max_candidates>>; the last pair stands for the
\* defaults (2000, 3000), which exceed the number of candidates
Limits ==
    {<<1, 1>>, <<1, 3>>, <<2, 3>>, <<3, 2>>, <<3, 1>>, <<NumRecords + 4, NumRecords + 5>>}

Call(p, names, countries, programs, topks, limits) ==
    \/ \E name \in names, country \in countries, program \in programs, top_k \in topks :
           NewQuery(p, name, country, program, top_k)
    \/ \E l \in limits : MatchBegin(p, l[1], l[2])
    \/ Retrieve(p)
    \/ Stage1(p)
    \/ Stage2(p)
    \/ SkipStage2(p)
    \/ Rank(p)
    \/ Emit(p)
    \/ Finish(p)

\* One caller; initialize() is entered only between its calls
Next ==
    \/ \E id \in MatcherIds : (\A p \in Procs : pc[p] = "idle") /\ InitializeLoad(id)
    \/ (\A p \in Procs : pc[p] = "idle") /\ InitializeFail
    \/ InitializeFinish
    \/ Call("p1", QueryNames, Countries, Programs, TopKs, Limits)

Spec == Init /\ [][Next]_vars

\* Two callers and the loader, interleaved step by step
NextConc ==
    \/ \E id \in {"m1", "m3"} : InitializeLoad(id)
    \/ InitializeFinish
    \/ InitializeFail
    \/ \E p \in Procs :
           Call(p, {<<>>, <<"a","l">>, <<"A","l"," ","B","o">>}, {NoneText}, {NoneText},
                {2}, {<<1, 3>>})

SpecConc == Init /\ [][NextConc]_vars

\* Longest list of queries given to screen_batch
MaxQueries == 2

ScreenNames == { <<" ">>, <<"A","l"," ","B","o">>, <<"a","l">>, <<"d","y">> }

\* The last two lists have six aliases
AliasLists ==
    { NoneList, <<>>,
      << <<"a","l"," ","b","y">> >>,
      << <<" ">> >>,
      << <<"a","l"," ","b","y">>, <<>> >>,
      << <<"a","l">>, <<"a","l"," ","b","y">>, <<"a","l">>, <<"a","l">>,
         <<"A","l"," ","B","o">>, <<"c","y"," ","d","y">> >>,
      << <<"a","l"," ","b","y">>, <<"a","l">>, <<"a","l">>, <<"a","l">>,
         <<"a","l">>, <<" ">> >> }

ScreenTopKs == {0, 1, 2, 3}

\* The service: loads, and screen_name requests one at a time, each running
\* its match() calls with the default limits.  Stage 2 needs more than
\* INITIAL_CANDIDATES candidates, which no index of NumRecords records has,
\* so its step is never enabled here.
NextScreen ==
    \/ \E id \in MatcherIds : scr.pc = "idle" /\ InitializeLoad(id)
    \/ scr.pc = "idle" /\ InitializeFail
    \/ InitializeFinish
    \/ \E name \in ScreenNames, aliases \in AliasLists, nationality \in Countries,
          top_k \in ScreenTopKs :
           load_pc = None /\ ScreenName(name, aliases, nationality, top_k)
    \/ ScreenQuery("p1")
    \/ scr.pc = "match" /\ MatchBegin("p1", INITIAL_CANDIDATES, MAX_CANDIDATES)
    \/ Retrieve("p1")
    \/ Stage1("p1")
    \/ SkipStage2("p1")
    \/ Rank("p1")
    \/ Emit("p1")
    \/ ScreenCollect("p1")
    \/ ScreenMerge
    \/ ScreenFinish

SpecScreen == Init /\ [][NextScreen]_vars

(***************************************************************************)
(* screen_batch: screen_name for each query dict in turn, with the default *)
(* top_k; the results are collected in a list.                             *)
(***************************************************************************)
\* screen_batch(queries) is called: results = []
ScreenBatch(queries) ==
    /\ fn.pc \in {"none", "returned"}
    /\ scr.pc = "idle"
    /\ load_pc = None
    /\ fn' = [op |-> "screen_batch",
              pc |-> IF queries = <<>> THEN "returned" ELSE "loop",
              queries |-> queries, results |-> <<>>,
              \* history, not program state: is_loaded at the call
              loaded |-> is_loaded]
    /\ UNCHANGED <<matchers, svc, load_pc, pc, ctor, query, lim, self, loc, response, scr>>

\* The loop body's call: screen_name(name=query["name"],
\* aliases=query.get("aliases"), nationality=query.get("nationality"))
BatchScreen ==
    /\ fn.pc = "loop"
    /\ LET q == fn.queries[Len(fn.results) + 1]
       IN  ScreenName(q.name, q.aliases, q.nationality, 3)

\* A loop that puts each result at the front of the list
BatchPrepend ==
    /\ fn.pc = "loop"
    /\ scr.pc = "done"
    /\ fn' = [fn EXCEPT !.results = <<scr.result>> \o @,
                        !.pc = IF Len(fn.results) + 1 = Len(fn.queries)
                               THEN "returned" ELSE "loop"]
    /\ scr' = NoScreen
    /\ ctor' = [p \in Procs |-> NoCtor]
    /\ UNCHANGED <<matchers, svc, load_pc, pc, query, lim, self, loc, response>>

\* results.append(result); after the last query, return results
BatchAppend ==
    /\ fn.pc = "loop"
    /\ scr.pc = "done"
    /\ fn' = [fn EXCEPT !.results = Append(@, scr.result),
                        !.pc = IF Len(fn.results) + 1 = Len(fn.queries)
                               THEN "returned" ELSE "loop"]
    /\ scr' = NoScreen
    /\ ctor' = [p \in Procs |-> NoCtor]
    /\ UNCHANGED <<matchers, svc, load_pc, pc, query, lim, self, loc, response>>

\* The service: loads between batches, and batches of up to MaxQueries query
\* dicts: a plain name, a blank name, a name with a blank alias and a
\* nationality, a name with an alias
NextBatch ==
    \/ \E id \in MatcherIds : fn.pc # "loop" /\ InitializeLoad(id)
    \/ fn.pc # "loop" /\ InitializeFail
    \/ InitializeFinish
    \/ \E n \in 0..MaxQueries :
           \E queries \in [1..n ->
                   { [name |-> <<"A","l"," ","B","o">>, aliases |-> NoneList,
                      nationality |-> NoneText],
                     [name |-> <<" ">>, aliases |-> NoneList, nationality |-> NoneText],
                     [name |-> <<"a","l">>, aliases |-> << <<" ">> >>,
                      nationality |-> <<"U","K">>],
                     [name |-> <<"d","y">>, aliases |-> << <<"a","l"," ","b","y">> >>,
                      nationality |-> NoneText] }] :
               ScreenBatch(queries)
    \/ BatchScreen
    \/ ScreenQuery("p1")
    \/ scr.pc = "match" /\ MatchBegin("p1", INITIAL_CANDIDATES, MAX_CANDIDATES)
    \/ Retrieve("p1")
    \/ Stage1("p1")
    \/ SkipStage2("p1")
    \/ Rank("p1")
    \/ Emit("p1")
    \/ ScreenCollect("p1")
    \/ ScreenMerge
    \/ BatchAppend

SpecBatch == Init /\ [][NextBatch]_vars

(***************************************************************************)
(* get_candidates called directly, on any token list and any three maps.   *)
(***************************************************************************)
\* Token lists: none, one to three tokens, and one with an empty first token
CandTokens ==
    { <<>>,
      << <<"a","l">> >>,
      << <<"a","l">>, <<"b","o">> >>,
      << <<"a","l">>, <<"b","o">>, <<"c","y">> >>,
      << <<>>, <<"b","o">> >> }

\* Position lists of a map entry; the last repeats a position
CandLists == { <<1>>, <<1, 0>>, <<2, 0>>, <<2, 2, 0>> }

\* Every map from some of the keys to position lists
CandMaps(keys) == UNION {[K -> CandLists] : K \in SUBSET keys}

FirstTokenKeys == { <<"a","l">>, <<"b","o">> }

BucketKeys == { "double", "medium" }

InitialsKeys == { <<>>, <<"a", HYPHEN, "b">> }

InitCand ==
    /\ ServiceInit
    /\ fn \in [op : {"get_candidates"}, pc : {"call"},
                query_tokens : CandTokens,
                first_token_index : CandMaps(FirstTokenKeys),
                bucket_index : CandMaps(BucketKeys),
                initials_index : CandMaps(InitialsKeys),
                candidate_indices : {<<>>},
                priority_scores : {EmptyCounts}]

\* The call get_candidates(query_tokens, first_token_index, bucket_index,
\* initials_index) runs and returns
GetCandidates ==
    /\ fn.op = "get_candidates"
    /\ fn.pc = "call"
    /\ LET got == get_candidates(fn.query_tokens, fn.first_token_index,
                                 fn.bucket_index, fn.initials_index)
       IN  fn' = [fn EXCEPT !.pc = "returned",
                            !.candidate_indices = got.candidate_indices,
                            !.priority_scores = got.priority_scores]
    /\ UNCHANGED <<matchers, svc, load_pc, pc, ctor, query, lim, self, loc,
                   response, scr>>

SpecCand == InitCand /\ [][GetCandidates]_vars

(***************************************************************************)
(* middleware/rate_limit.py: RateLimiter over a cachetools TTLCache.  The  *)
(* cache is the list of its entries in the order of their last assignment; *)
(* an assignment gives the entry a new expiry time; an entry is gone once  *)
(* the time has reached its expiry; a new key assigned to a full cache     *)
(* evicts entries from the front of the list.  Time is a tick counter.     *)
(***************************************************************************)
RateUsers == {"u1", "u2", "u3"}

\* The cache's maxsize (10000 in the source), scaled to the number of users
MaxTracked == 2

\* window_seconds, in ticks
WindowTicks == 2

MaxTime == 3

MaxCalls == 6

NoCall == [op |-> "none", user |-> None, result |-> FALSE, remaining |-> 0]

InitRate ==
    /\ ServiceInit
    /\ fn \in [op : {"RateLimiter"}, pc : {"ready"}, max_requests : {1, 2},
               cache : {<<>>}, now : {0}, calls : {0}, last : {NoCall},
               \* history: per user the checks allowed since the entry was
               \* created, and the time that entry expires when left alone
               allowed : {[u \in RateUsers |-> 0]},
               window_end : {[u \in RateUsers |-> 0]}]

\* self._cache.get(key, default)
CacheGet(cache, key, default) ==
    IF \E i \in DOMAIN cache : cache[i].key = key
    THEN cache[CHOOSE i \in DOMAIN cache : cache[i].key = key].count
    ELSE default

\* The eviction that makes room for one new entry
RECURSIVE Evict(_, _)
Evict(cache, maxsize) ==
    IF Len(cache) + 1 > maxsize /\ cache # <<>> THEN Evict(Tail(cache), maxsize)
    ELSE cache

\* self._cache[key] = count
CacheSet(cache, key, count, now, maxsize) ==
    LET entry == [key |-> key, count |-> count, expires |-> now + WindowTicks]
    IN  IF \E i \in DOMAIN cache : cache[i].key = key
        THEN Append(SelectSeq(cache, LAMBDA e : e.key # key), entry)
        ELSE Append(Evict(cache, maxsize), entry)

\* get_remaining(user_id)
get_remaining(cache, max_requests, user_id) ==
    Max(0, max_requests - CacheGet(cache, user_id, 0))

RateFrame ==
    UNCHANGED <<matchers, svc, load_pc, pc, ctor, query, lim, self, loc,
                response, scr>>

\* check(user_id), followed by get_remaining(user_id)
Check(user_id) ==
    /\ fn.op = "RateLimiter"
    /\ fn.calls < MaxCalls
    /\ LET current_count == CacheGet(fn.cache, user_id, 0)
           cache == CacheSet(fn.cache, user_id, current_count + 1, fn.now, MaxTracked)
       IN  IF current_count >= fn.max_requests
           THEN fn' = [fn EXCEPT
                          !.calls = @ + 1,
                          !.last = [op |-> "check", user |-> user_id, result |-> FALSE,
                                    remaining |-> get_remaining(fn.cache, fn.max_requests,
                                                                user_id)]]
           ELSE fn' = [fn EXCEPT
                          !.calls = @ + 1,
                          !.cache = cache,
                          !.allowed[user_id] = @ + 1,
                          !.window_end[user_id] = fn.now + WindowTicks,
                          !.last = [op |-> "check", user |-> user_id, result |-> TRUE,
                                    remaining |-> get_remaining(cache, fn.max_requests,
                                                                user_id)]]
    /\ RateFrame

\* reset(user_id)
Reset(user_id) ==
    /\ fn.op = "RateLimiter"
    /\ fn.calls < MaxCalls
    /\ fn' = [fn EXCEPT
                 !.calls = @ + 1,
                 !.cache = SelectSeq(@, LAMBDA e : e.key # user_id),
                 !.allowed[user_id] = 0,
                 !.last = [op |-> "reset", user |-> user_id, result |-> FALSE,
                           remaining |-> 0]]
    /\ RateFrame

\* Time passes: entries whose expiry time is reached are gone
Tick ==
    /\ fn.op = "RateLimiter"
    /\ fn.now < MaxTime
    /\ fn' = [fn EXCEPT
                 !.now = @ + 1,
                 !.cache = SelectSeq(@, LAMBDA e : fn.now + 1 < e.expires),
                 !.allowed = [u \in RateUsers |->
                                 IF fn.now + 1 < fn.window_end[u] THEN @[u] ELSE 0],
                 !.last = NoCall]
    /\ RateFrame

NextRate ==
    \/ \E user_id \in RateUsers : Check(user_id)
    \/ \E user_id \in RateUsers : Reset(user_id)
    \/ Tick

SpecRate == InitRate /\ [][NextRate]_vars

(***************************************************************************)
(* text_utils.py called directly: normalize_text applied to a raw text and *)
(* again to its own result; tokenize applied to a normalized name.         *)
(***************************************************************************)
MaxTextLen == 3

TextAlphabet ==
    { "A", "b", "2", SPACE, TAB, HYPHEN, QUOTE, DOT, EACUTE, COMBACUTE,
      FULLWIDTH_A, CJK }

RawTexts ==
    {NoneText} \cup UNION { [1..n -> TextAlphabet] : n \in 0..MaxTextLen }

InitNorm ==
    /\ ServiceInit
    /\ fn \in [op : {"normalize_text"}, pc : {"call"}, text : RawTexts,
                once : {<<>>}, twice : {<<>>}]

\* once = normalize_text(text)
Normalize ==
    /\ fn.op = "normalize_text"
    /\ fn.pc = "call"
    /\ fn' = [fn EXCEPT !.pc = "once", !.once = normalize_text(fn.text)]
    /\ UNCHANGED <<matchers, svc, load_pc, pc, ctor, query, lim, self, loc,
                   response, scr>>

\* twice = normalize_text(once)
NormalizeAgain ==
    /\ fn.op = "normalize_text"
    /\ fn.pc = "once"
    /\ fn' = [fn EXCEPT !.pc = "twice", !.twice = normalize_text(fn.once)]
    /\ UNCHANGED <<matchers, svc, load_pc, pc, ctor, query, lim, self, loc,
                   response, scr>>

NextNorm == Normalize \/ NormalizeAgain

SpecNorm == InitNorm /\ [][NextNorm]_vars

\* Pieces of normalized names: stopwords, names, a one-character piece, a name
\* that contains a stopword
TokWords ==
    { <<"c","o">>, <<"l","t","d">>, <<"e","l">>, <<"a","l">>, <<"b","o">>,
      <<"x">>, <<"c","o","l","a">> }

TokSeparators == { <<SPACE>>, <<HYPHEN>>, <<SPACE, HYPHEN>> }

TokNames ==
    { <<>>, <<SPACE>>, <<HYPHEN, "a", "l">>, <<"a", "l", HYPHEN>> }
    \cup TokWords
    \cup { a \o s \o b : a \in TokWords, s \in TokSeparators, b \in TokWords }
    \cup { a \o s \o b \o <<SPACE>> \o c :
               a \in TokWords, s \in TokSeparators, b \in TokWords, c \in TokWords }

InitTok ==
    /\ ServiceInit
    /\ fn \in [op : {"tokenize"}, pc : {"call"}, name : TokNames, tokens : {<<>>}]

Tokenize ==
    /\ fn.op = "tokenize"
    /\ fn.pc = "call"
    /\ fn' = [fn EXCEPT !.pc = "returned", !.tokens = tokenize(fn.name)]
    /\ UNCHANGED <<matchers, svc, load_pc, pc, ctor, query, lim, self, loc,
                   response, scr>>

SpecTok == InitTok /\ [][Tokenize]_vars

(***************************************************************************)
(* composite_score_batch called directly on three arrays of one length,    *)
(* as compute_similarity_batch returns them.                               *)
(***************************************************************************)
MaxBatch == 2

\* Ratios as percentages: 0.0, 0.37 and 1.0
RatioValues == {0, 37, 100}

ScoreArrays(n) == [1..n -> RatioValues]

InitComp ==
    /\ ServiceInit
    /\ \E n \in 0..MaxBatch :
           fn \in [op : {"composite_score_batch"}, pc : {"call"},
                   set_scores : ScoreArrays(n), sort_scores : ScoreArrays(n),
                   partial_scores : ScoreArrays(n), composite : {<<>>}]

CompositeScoreBatch ==
    /\ fn.op = "composite_score_batch"
    /\ fn.pc = "call"
    /\ fn' = [fn EXCEPT !.pc = "returned",
                        !.composite = composite_score_batch(
                            fn.set_scores, fn.sort_scores, fn.partial_scores)]
    /\ UNCHANGED <<matchers, svc, load_pc, pc, ctor, query, lim, self, loc,
                   response, scr>>

SpecComp == InitComp /\ [][CompositeScoreBatch]_vars

(***************************************************************************)
(* Properties.                                                             *)
(***************************************************************************)
Done(p) == pc[p] = "done"

FilterSet(f) == f # NoneText /\ f # <<>>

\* The scored candidates of a call, as indices of its parallel lists
Scored(p) == DOMAIN loc[p].composite_scores

\* Whether the call ran Stage 2 and it added candidates to the lists
Stage2Added(p) ==
    /\ \E i \in DOMAIN loc[p].phases : loc[p].phases[i] = "stage2"
    /\ Len(loc[p].candidate_idx_map) > Len(loc[p].candidates_to_score)

\* C1: the matches of every response returned by match() are in order of
\* non-increasing composite score.
C1_MatchesSortedDescending ==
    \A p \in Procs :
        Done(p) =>
            \A i, j \in DOMAIN response[p].top_matches :
                i < j => response[p].top_matches[i].score >= response[p].top_matches[j].score

\* A response of two or more matches with different scores, after Stage 2
\* appended a score above Stage 1's and a filter removed a scored candidate.
C1_Witness ==
    \E p \in Procs :
        /\ Done(p)
        /\ Stage2Added(p)
        /\ \E i \in Scored(p) :
               /\ i > Len(loc[p].candidates_to_score)
               /\ loc[p].composite_scores[i] > loc[p].top_score
        /\ \E i \in Scored(p) : ~PassesFilters(query[p], loc[p].candidate_metadata[i])
        /\ Len(response[p].top_matches) >= 2
        /\ response[p].top_matches[1].score > response[p].top_matches[2].score

\* The decision a score must get, read off the documented cut-offs
DecisionFor(score) ==
    IF score >= 900 THEN "match" ELSE IF score >= 800 THEN "review" ELSE "no_match"

\* apply_decision_threshold on every score from 0.000 to 1.000
DecisionTableRight ==
    \A score \in 0..1000 :
        LET d == apply_decision_threshold(score)
        IN  /\ d.is_match = (score >= 900)
            /\ d.decision = DecisionFor(score)
            /\ d.is_match = (d.decision = "match")

\* C2: is_match iff score >= 0.90; decision match iff score >= 0.90, review
\* iff 0.80 <= score < 0.90, no_match iff score < 0.80; for every score and
\* for every match that match() returns.
C2_DecisionThresholds ==
    /\ DecisionTableRight
    /\ \A p \in Procs :
           Done(p) =>
               \A i \in DOMAIN response[p].top_matches :
                   LET m == response[p].top_matches[i]
                   IN  /\ m.is_match = (m.score >= 900)
                       /\ m.decision = DecisionFor(m.score)

\* A response holding a match scored exactly 0.80 (review, on the boundary)
\* beside a match and a no_match.
C2_Witness ==
    \E p \in Procs :
        /\ Done(p)
        /\ \E i \in DOMAIN response[p].top_matches :
               /\ response[p].top_matches[i].score = 800
               /\ response[p].top_matches[i].decision = "review"
        /\ \E i \in DOMAIN response[p].top_matches :
               response[p].top_matches[i].decision = "no_match"

\* C3: match() returns at most query.top_k matches.
C3_AtMostTopK ==
    \A p \in Procs : Done(p) => Len(response[p].top_matches) <= query[p].top_k

\* A response of exactly top_k matches while more scored candidates pass
\* the filters.
C3_Witness ==
    \E p \in Procs :
        /\ Done(p)
        /\ Len(response[p].top_matches) = query[p].top_k
        /\ Cardinality({i \in Scored(p) :
                           PassesFilters(query[p], loc[p].candidate_metadata[i])})
               > query[p].top_k

\* C4: with a country filter set, every returned match has exactly that
\* country; a candidate of another or of no country is never returned.
C4_CountryFilter ==
    \A p \in Procs :
        (Done(p) /\ FilterSet(query[p].country)) =>
            \A i \in DOMAIN response[p].top_matches :
                response[p].top_matches[i].country = query[p].country

\* A filtered response with matches, while a scored candidate of another
\* country outscores every returned match and one without country was scored.
C4_Witness ==
    \E p \in Procs :
        /\ Done(p)
        /\ FilterSet(query[p].country)
        /\ response[p].top_matches # <<>>
        /\ \E i \in Scored(p) :
               /\ loc[p].candidate_metadata[i].country \notin {query[p].country, NoneText}
               /\ \A k \in DOMAIN response[p].top_matches :
                      loc[p].composite_scores[i] > response[p].top_matches[k].score
        /\ \E i \in Scored(p) : loc[p].candidate_metadata[i].country = NoneText

\* C5: with a program filter set, every returned match has a program that
\* contains the filter value, compared case-insensitively; a candidate
\* without program is never returned.
C5_ProgramFilter ==
    \A p \in Procs :
        (Done(p) /\ FilterSet(query[p].program)) =>
            \A i \in DOMAIN response[p].top_matches :
                LET prog == response[p].top_matches[i].program
                IN  /\ prog # NoneText
                    /\ Contains(Lower(prog), Lower(query[p].program))

\* A filtered response with a match whose program contains the filter value
\* only when case is ignored, while a scored candidate without program and
\* one with another program were left out.
C5_Witness ==
    \E p \in Procs :
        /\ Done(p)
        /\ FilterSet(query[p].program)
        /\ \E i \in DOMAIN response[p].top_matches :
               ~Contains(response[p].top_matches[i].program, query[p].program)
        /\ \E i \in Scored(p) : loc[p].candidate_metadata[i].program = NoneText
        /\ \E i \in Scored(p) :
               /\ loc[p].candidate_metadata[i].program # NoneText
               /\ ~PassesFilters(query[p], loc[p].candidate_metadata[i])

\* The no-result cases of a finished call
NoTokens(p) == loc[p].query_tokens = <<>>

NoCandidates(p) == ~NoTokens(p) /\ loc[p].candidate_indices = <<>>

NoneResolves(p) ==
    /\ loc[p].candidates_to_score # <<>>
    /\ \A i \in DOMAIN loc[p].candidates_to_score :
           ~Resolves(matchers[self[p]].sanctions_index, loc[p].candidates_to_score[i])

AllFiltered(p) ==
    /\ Scored(p) # {}
    /\ \A i \in Scored(p) : ~PassesFilters(query[p], loc[p].candidate_metadata[i])

ValidEmptyResponse(p) ==
    /\ response[p].top_matches = <<>>
    /\ response[p].query = query[p].name
    /\ response[p].applied_filters =
           [country |-> query[p].country, program |-> query[p].program]
    /\ response[p].version = matchers[self[p]].version

\* C6: match() never raises, and in every no-result case (no tokens, no
\* candidates, no selected position resolves, every scored candidate
\* filtered out) its response is valid and holds no match.
C6_NoResultIsEmptyResponse ==
    \A p \in Procs :
        /\ pc[p] # "raised"
        /\ (Done(p) /\ (NoTokens(p) \/ NoCandidates(p) \/ NoneResolves(p) \/ AllFiltered(p)))
               => ValidEmptyResponse(p)

\* A call returned an empty response because none of its selected
\* candidate positions resolved to a record.
C6_Witness ==
    \E p \in Procs : Done(p) /\ NoneResolves(p) /\ ValidEmptyResponse(p)

\* The other no-result cases, each returned as an empty response
C6_WitnessNonLatin ==
    \E p \in Procs :
        Done(p) /\ NoTokens(p) /\ query[p].name = <<CJK>> /\ ValidEmptyResponse(p)

C6_WitnessNoCandidates ==
    \E p \in Procs : Done(p) /\ NoCandidates(p) /\ ValidEmptyResponse(p)

C6_WitnessAllFiltered ==
    \E p \in Procs : Done(p) /\ AllFiltered(p) /\ ValidEmptyResponse(p)

IsBlank(name) == \A i \in DOMAIN name : name[i] \in {SPACE, TAB}

\* C7: SanctionsQuery(...) raises ValueError exactly when the name is empty
\* or blank or top_k is outside 1..10, and then no query object exists; so
\* every query that match() processes has a non-blank name and a top_k in
\* 1..10.
C7_QueryValidation ==
    \A p \in Procs :
        /\ ctor[p].raised # "no call" =>
               ((ctor[p].raised = "ValueError") <=>
                    (IsBlank(ctor[p].name) \/ ctor[p].top_k < 1 \/ ctor[p].top_k > 10))
        /\ ctor[p].raised = "ValueError" => pc[p] = "idle" /\ query[p] = NoQuery
        /\ pc[p] # "idle" =>
               /\ ~IsBlank(query[p].name)
               /\ query[p].top_k >= 1
               /\ query[p].top_k <= 10

\* The constructor rejected a name made of whitespace only.
C7_Witness ==
    \E p \in Procs :
        /\ ctor[p].raised = "ValueError"
        /\ ctor[p].name # <<>>
        /\ IsBlank(ctor[p].name)
        /\ ctor[p].top_k \in 1..10

\* The constructor rejected top_k = 0 and top_k = 11 for a good name
C7_WitnessTopK ==
    \E p \in Procs :
        /\ ctor[p].raised = "ValueError"
        /\ ~IsBlank(ctor[p].name)
        /\ ctor[p].top_k \in {0, 11}

\* The case of C8: a finished call without filters on a matcher whose maps
\* were built from its records, one of which has the query's normalized name
ExactRecordCase(p) ==
    /\ Done(p)
    /\ IsBuilt(matchers[self[p]])
    /\ ~FilterSet(query[p].country)
    /\ ~FilterSet(query[p].program)
    /\ loc[p].query_tokens # <<>>
    /\ \E i \in DOMAIN matchers[self[p]].sanctions_index :
           matchers[self[p]].sanctions_index[i].name_norm = loc[p].query_norm

FirstMatchIsExact(p) ==
    /\ response[p].top_matches # <<>>
    /\ response[p].top_matches[1].score = 1000
    /\ response[p].top_matches[1].decision = "match"
    /\ response[p].top_matches[1].is_match

\* The records that share first token, bucket and initials with the query
SameKeys(p) ==
    LET recs == matchers[self[p]].sanctions_index
        qt == loc[p].query_tokens
    IN  {i \in DOMAIN recs :
            LET rt == tokenize(recs[i].name_norm)
            IN  /\ rt # <<>>
                /\ get_first_token(rt) = get_first_token(qt)
                /\ get_token_count_bucket(rt) = get_token_count_bucket(qt)
                /\ get_initials_signature(rt) = get_initials_signature(qt)}

\* C8 as claimed: on a built index, an unfiltered query whose normalized name
\* equals a record's gets a first match of score 1.0 and decision 'match',
\* whatever the candidate limits.
C8_ExactMatchAnyLimits ==
    \A p \in Procs : ExactRecordCase(p) => FirstMatchIsExact(p)

\* C8 amended: the same, provided the records that share first token, bucket
\* and initials with the query are at most initial_candidates.
C8_ExactMatchWithinLimit ==
    \A p \in Procs :
        (ExactRecordCase(p) /\ Cardinality(SameKeys(p)) <= lim[p].initial_candidates)
            => FirstMatchIsExact(p)

\* An exact record was found although blocking returned more candidates than
\* Stage 1 scores and the exact record is not the first candidate.
C8_Witness ==
    \E p \in Procs :
        /\ ExactRecordCase(p)
        /\ Cardinality(SameKeys(p)) <= lim[p].initial_candidates
        /\ Len(loc[p].candidate_indices) > lim[p].initial_candidates
        /\ iloc(matchers[self[p]].sanctions_index,
                loc[p].candidate_indices[1]).name_norm # loc[p].query_norm
        /\ FirstMatchIsExact(p)

\* C9: match() leaves the record table and the three blocking maps of every
\* matcher as they were loaded, and each call, however it is interleaved with
\* other calls on the same matcher, returns what its query returns run alone.
C9_ConcurrentCallsIndependent ==
    /\ matchers = Snapshots
    /\ \A p \in Procs :
           Done(p) => response[p] = MatchAlone(query[p], lim[p], Snapshots[self[p]])

\* A call returned matches after steps taken while the other caller was
\* inside match() on the same matcher, with another query.
C9_Witness ==
    \E p \in Procs, q \in Procs :
        /\ p # q
        /\ Done(p)
        /\ loc[p].overlapped
        /\ response[p].top_matches # <<>>
        /\ Done(q)
        /\ self[q] = self[p]
        /\ loc[q].overlapped
        /\ query[q].name # query[p].name
        /\ response[q].top_matches # <<>>

\* C10: a reload swaps the service's matcher reference; every match() call
\* reads the records and the three blocking maps of one loaded snapshot, the
\* one it started on, whether the service has moved on or not.
C10_ReadsOneSnapshot ==
    /\ svc.matcher # None => matchers[svc.matcher] = Snapshots[svc.matcher]
    /\ \A p \in Procs :
           \E id \in MatcherIds :
               /\ loc[p].read_records \subseteq {Snapshots[id].sanctions_index}
               /\ loc[p].read_maps \subseteq {MapsOf(Snapshots[id])}
               /\ self[p] # None => id = self[p]

\* A call read records in both stages, at least once after the service had
\* swapped to another matcher, and returned the old snapshot's matches.
C10_Witness ==
    \E p \in Procs :
        /\ Done(p)
        /\ loc[p].swapped
        /\ Stage2Added(p)
        /\ loc[p].read_records # {}
        /\ loc[p].read_maps # {}
        /\ response[p].version = Snapshots[self[p]].version
        /\ response[p].top_matches # <<>>

\* A screen_name request that ran to its end and returned data
ScreenSucceeded == scr.pc = "done" /\ scr.result.success

\* The names a request is to match: the primary name, then the first five
\* aliases
NamesToMatch ==
    <<scr.name>> \o
        (IF scr.aliases = NoneList THEN <<>>
         ELSE SubSeq(scr.aliases, 1, IF Len(scr.aliases) < 5 THEN Len(scr.aliases) ELSE 5))

\* Every match the request's match() calls returned
ReturnedMatches == Flatten(scr.responses)

BestScore(uid) ==
    CHOOSE x \in {ReturnedMatches[j].score : j \in DOMAIN ReturnedMatches} :
        /\ \E j \in DOMAIN ReturnedMatches :
               ReturnedMatches[j].uid = uid /\ ReturnedMatches[j].score = x
        /\ \A j \in DOMAIN ReturnedMatches :
               ReturnedMatches[j].uid = uid => ReturnedMatches[j].score <= x

ReturnedUids == {ReturnedMatches[j].uid : j \in DOMAIN ReturnedMatches}

\* C11: screen_name runs match() on the primary name and then on the first
\* five aliases at most, in order and once each; all_matches has one entry per
\* uid, with the highest score that uid got in any response, in order of
\* descending score, and holds the best top_k uids.
C11_AliasMerge ==
    /\ Len(scr.calls) <= Len(NamesToMatch)
    /\ \A i \in DOMAIN scr.calls : scr.calls[i] = NamesToMatch[i]
    /\ ScreenSucceeded =>
           LET all_matches == scr.result.data[1].all_matches
               n == Len(all_matches)
           IN  /\ scr.calls = NamesToMatch
               /\ \A i, j \in 1..n : i # j => all_matches[i].uid # all_matches[j].uid
               /\ \A i \in 1..n :
                      /\ all_matches[i].uid \in ReturnedUids
                      /\ all_matches[i].score = BestScore(all_matches[i].uid)
               /\ \A i \in 1..(n - 1) : all_matches[i].score >= all_matches[i + 1].score
               /\ n = Min(scr.top_k, Cardinality(ReturnedUids))
               /\ \A u \in ReturnedUids :
                      (\A i \in 1..n : all_matches[i].uid # u)
                          => BestScore(u) <= all_matches[n].score

\* A request with six aliases succeeded after six match() calls; a uid came
\* back with two different scores, and more uids came back than top_k.
C11_Witness ==
    /\ ScreenSucceeded
    /\ Len(scr.aliases) = 6
    /\ Len(scr.calls) = 6
    /\ scr.result.data[1].all_matches # <<>>
    /\ Cardinality(ReturnedUids) > scr.top_k
    /\ \E i, j \in DOMAIN ReturnedMatches :
           /\ ReturnedMatches[i].uid = ReturnedMatches[j].uid
           /\ ReturnedMatches[i].score < ReturnedMatches[j].score
           /\ scr.result.data[1].all_matches[1].uid = ReturnedMatches[i].uid

\* C12: the overall decision of a screening is the decision of its
\* highest-scoring merged match; a screening whose match() calls all ran and
\* returned nothing succeeds with 'no_match', is_match false and confidence 0;
\* is_match holds exactly when the overall decision is 'match'.
C12_OverallDecision ==
    /\ (scr.pc = "done" /\ scr.calls = NamesToMatch /\ ReturnedMatches = <<>>)
           => ScreenSucceeded
    /\ ScreenSucceeded =>
           LET data == scr.result.data[1]
               all_matches == data.all_matches
           IN  /\ data.is_match <=> (data.decision = "match")
               /\ all_matches = <<>> =>
                      /\ data.decision = "no_match"
                      /\ ~data.is_match
                      /\ data.top_match = <<>>
                      /\ scr.result.confidence = 0
               /\ all_matches # <<>> =>
                      \E i \in DOMAIN all_matches :
                          /\ \A j \in DOMAIN all_matches :
                                 all_matches[j].score <= all_matches[i].score
                          /\ data.decision = all_matches[i].decision
                          /\ data.decision = DecisionFor(all_matches[i].score)
                          /\ scr.result.confidence = all_matches[i].score

\* A screening succeeded without any match: 'no_match', confidence 0.
C12_Witness ==
    /\ ScreenSucceeded
    /\ scr.result.data[1].all_matches = <<>>
    /\ scr.result.data[1].decision = "no_match"
    /\ scr.result.confidence = 0

\* Screenings with several merged matches decided 'match' and 'review'
C12_WitnessMatch ==
    /\ ScreenSucceeded
    /\ Len(scr.result.data[1].all_matches) > 1
    /\ scr.result.data[1].decision = "match"
    /\ scr.result.data[1].all_matches[Len(scr.result.data[1].all_matches)].decision
           = "no_match"

C12_WitnessReview ==
    /\ ScreenSucceeded
    /\ Len(scr.result.data[1].all_matches) > 1
    /\ scr.result.data[1].decision = "review"

\* A request that submits a blank name, as the primary name or as an alias
RequestHasBlank ==
    /\ scr.pc # "idle"
    /\ \/ IsBlank(scr.name)
       \/ /\ scr.aliases # NoneList
          /\ \E i \in DOMAIN scr.aliases : IsBlank(scr.aliases[i])

\* C13: a screening request that contains a blank name, primary or alias,
\* has no match() call executed for it: none completed, none begun.
C13_ValidationBeforeMatching ==
    RequestHasBlank => (scr.calls = <<>> /\ loc["p1"].phases = <<>>)

\* The call of get_candidates has returned
CandReturned == fn.op = "get_candidates" /\ fn.pc = "returned"

\* The list each strategy looks up for the query's own signature (empty when
\* the signature is missing or not a key of the map)
FirstTokenHits ==
    IF fn.query_tokens # <<>> /\ fn.query_tokens[1] # <<>>
       /\ fn.query_tokens[1] \in DOMAIN fn.first_token_index
    THEN fn.first_token_index[fn.query_tokens[1]] ELSE <<>>

BucketHits ==
    IF get_token_count_bucket(fn.query_tokens) \in DOMAIN fn.bucket_index
    THEN fn.bucket_index[get_token_count_bucket(fn.query_tokens)] ELSE <<>>

InitialsHits ==
    IF get_initials_signature(fn.query_tokens) # <<>>
       /\ get_initials_signature(fn.query_tokens) \in DOMAIN fn.initials_index
    THEN fn.initials_index[get_initials_signature(fn.query_tokens)] ELSE <<>>

\* How many times a list names a position
Occurrences(list, idx) == Cardinality({i \in DOMAIN list : list[i] = idx})

DuplicateFree(list) == \A i, j \in DOMAIN list : i # j => list[i] # list[j]

HitListsDuplicateFree ==
    DuplicateFree(FirstTokenHits) /\ DuplicateFree(BucketHits) /\ DuplicateFree(InitialsHits)

CandPositions == Range(FirstTokenHits) \cup Range(BucketHits) \cup Range(InitialsHits)

Priority(idx) == CountOf(fn.priority_scores, idx)

\* C14: every position's priority is the sum of the weights of its hits, 3 per
\* first-token hit, 2 per initials hit, 1 per bucket hit; a position without
\* hit is not returned; with duplicate-free lists a returned position has a
\* priority of 1..6, the sum of the weights of the strategies that hit it,
\* and 6 exactly when all three hit it.
C14_PriorityIsSumOfWeights ==
    CandReturned =>
        /\ Range(fn.candidate_indices) = CandPositions
        /\ Range(fn.priority_scores.order) = CandPositions
        /\ DuplicateFree(fn.candidate_indices)
        /\ \A idx \in CandPositions :
               Priority(idx) = 3 * Occurrences(FirstTokenHits, idx)
                               + 2 * Occurrences(InitialsHits, idx)
                               + Occurrences(BucketHits, idx)
        /\ HitListsDuplicateFree =>
               \A idx \in CandPositions :
                   /\ Priority(idx) =
                          (IF idx \in Range(FirstTokenHits) THEN 3 ELSE 0)
                          + (IF idx \in Range(InitialsHits) THEN 2 ELSE 0)
                          + (IF idx \in Range(BucketHits) THEN 1 ELSE 0)
                   /\ Priority(idx) >= 1
                   /\ Priority(idx) <= 6
                   /\ Priority(idx) = 6 <=>
                          /\ idx \in Range(FirstTokenHits)
                          /\ idx \in Range(InitialsHits)
                          /\ idx \in Range(BucketHits)

\* Duplicate-free lists gave one position priority 6 and another, hit by the
\* first-token strategy alone, priority 3, while a position of the maps that
\* no strategy hit was not returned.
C14_Witness ==
    /\ CandReturned
    /\ HitListsDuplicateFree
    /\ \E idx \in CandPositions : Priority(idx) = 6
    /\ \E idx \in CandPositions : Priority(idx) = 3
    /\ \E k \in DOMAIN fn.first_token_index :
           \E i \in DOMAIN fn.first_token_index[k] :
               fn.first_token_index[k][i] \notin Range(fn.candidate_indices)

\* The order in which the positions are first met: first-token hits, then
\* bucket hits, then initials hits
Encounters == FirstTokenHits \o BucketHits \o InitialsHits

FirstEncounter(idx) ==
    CHOOSE i \in DOMAIN Encounters :
        Encounters[i] = idx /\ \A j \in 1..(i - 1) : Encounters[j] # idx

HitByAll(idx) ==
    idx \in Range(FirstTokenHits) \cap Range(BucketHits) \cap Range(InitialsHits)

HitByOne(idx) ==
    Cardinality({h \in {1, 2, 3} :
                    idx \in Range(IF h = 1 THEN FirstTokenHits
                                  ELSE IF h = 2 THEN BucketHits ELSE InitialsHits)}) = 1

PositionOf(idx) == CHOOSE i \in DOMAIN fn.candidate_indices : fn.candidate_indices[i] = idx

SortedByPriorityStable ==
    \A i, j \in DOMAIN fn.candidate_indices :
        i < j =>
            \/ Priority(fn.candidate_indices[i]) > Priority(fn.candidate_indices[j])
            \/ /\ Priority(fn.candidate_indices[i]) = Priority(fn.candidate_indices[j])
               /\ FirstEncounter(fn.candidate_indices[i])
                      < FirstEncounter(fn.candidate_indices[j])

AllBeforeOne ==
    \A a, b \in Range(fn.candidate_indices) :
        (HitByAll(a) /\ HitByOne(b)) => PositionOf(a) < PositionOf(b)

C16_EmptyTokensEmptyResult ==
    (CandReturned /\ fn.query_tokens = <<>>) =>
        (fn.candidate_indices = <<>> /\ fn.priority_scores = EmptyCounts)

\* C17: normalize_text is idempotent: normalizing a normalized text, the
\* results for None and the empty string included, changes nothing.
C17_NormalizeIdempotent ==
    (fn.op = "normalize_text" /\ fn.pc = "twice") => fn.twice = fn.once

\* A text with an accent, a quote, a non-latin character or untidy whitespace
\* was changed by the first pass and its non-empty result went through the
\* second pass.
C17_Witness ==
    /\ fn.op = "normalize_text"
    /\ fn.pc = "twice"
    /\ fn.text # NoneText
    /\ fn.once # <<>>
    /\ fn.once # fn.text
    /\ \E i \in DOMAIN fn.text : fn.text[i] \in {EACUTE, DOT, CJK, TAB, QUOTE}

\* None went through both passes.
C17_WitnessNone ==
    fn.op = "normalize_text" /\ fn.pc = "twice" /\ fn.text = NoneText

TokReturned == fn.op = "tokenize" /\ fn.pc = "returned"

IsSeparator(c) == c \in {SPACE, TAB, HYPHEN}

\* The pieces of the name: the maximal runs without whitespace and hyphen,
\* named by their first and last position
Runs ==
    { r \in (DOMAIN fn.name) \X (DOMAIN fn.name) :
        /\ r[1] <= r[2]
        /\ \A i \in r[1]..r[2] : ~IsSeparator(fn.name[i])
        /\ r[1] = 1 \/ IsSeparator(fn.name[r[1] - 1])
        /\ r[2] = Len(fn.name) \/ IsSeparator(fn.name[r[2] + 1]) }

Piece(r) == SubSeq(fn.name, r[1], r[2])

\* The stopwords the specification lists
ListedStopwords ==
    { <<"l","t","d">>, <<"i","n","c">>, <<"l","l","c">>, <<"c","o","r","p">>,
      <<"c","o","r","p","o","r","a","t","i","o","n">>,
      <<"c","o","m","p","a","n","y">>, <<"s","a">>, <<"g","m","b","h">>,
      <<"a","g">>, <<"n","v">>, <<"b","v">>, <<"p","l","c">>,
      <<"l","i","m","i","t","e","d">>, <<"m","r">>, <<"m","r","s">>,
      <<"m","s">>, <<"d","r">>, <<"p","r","o","f">>, <<"t","h","e">>,
      <<"o","f">>, <<"a","n","d">>, <<"f","o","r">>, <<"d","e">>,
      <<"l","a">>, <<"e","l">> }

KeptRuns(stopwords) ==
    { r \in Runs : r[2] - r[1] + 1 >= 2 /\ Piece(r) \notin stopwords }

\* The tokens are the kept pieces, in the order of the name
TokensAreKeptRuns(stopwords) ==
    /\ Len(fn.tokens) = Cardinality(KeptRuns(stopwords))
    /\ \A r \in KeptRuns(stopwords) :
           fn.tokens[1 + Cardinality({q \in KeptRuns(stopwords) : q[1] < r[1]})]
               = Piece(r)

\* C18 as claimed: tokenize returns, in order, exactly the pieces of 2 or more
\* characters that are not one of the 25 listed stopwords.
C18_TokenizeListedStopwords ==
    TokReturned => TokensAreKeptRuns(ListedStopwords)

\* C18 amended: tokenize returns, in order, exactly the pieces of 2 or more
\* characters that are not one of the listed stopwords or "co"; the empty
\* name gives the empty list.
C18_Tokenize ==
    TokReturned =>
        /\ TokensAreKeptRuns(ListedStopwords \cup {<<"c","o">>})
        /\ fn.name = <<>> => fn.tokens = <<>>

\* A name with a stopword, a one-character piece and a kept piece, split on
\* a hyphen, returned its kept pieces.
C18_Witness ==
    /\ TokReturned
    /\ \E r \in Runs : Piece(r) = <<"c","o">>
    /\ \E r \in Runs : Piece(r) = <<"x">>
    /\ \E i \in DOMAIN fn.name : fn.name[i] = HYPHEN
    /\ fn.tokens = << <<"a","l">> >>

CompReturned == fn.op = "composite_score_batch" /\ fn.pc = "returned"

\* C19: element by element the composite is 0.40 set + 0.40 sort + 0.20
\* partial (in thousandths: 4, 4 and 2 per percent); it lies in [0, 1], is
\* 1.0 for three ratios of 1.0 and 0.40 for set 1.0, sort 0.0, partial 0.0.
C19_CompositeWeights ==
    CompReturned =>
        /\ Len(fn.composite) = Len(fn.set_scores)
        /\ \A i \in DOMAIN fn.composite :
               /\ 10 * fn.composite[i] =
                      40 * fn.set_scores[i] + 40 * fn.sort_scores[i]
                      + 20 * fn.partial_scores[i]
               /\ fn.composite[i] >= 0
               /\ fn.composite[i] <= 1000
               /\ (fn.set_scores[i] = 100 /\ fn.sort_scores[i] = 100
                      /\ fn.partial_scores[i] = 100) => fn.composite[i] = 1000
               /\ (fn.set_scores[i] = 100 /\ fn.sort_scores[i] = 0
                      /\ fn.partial_scores[i] = 0) => fn.composite[i] = 400

\* One batch held both named cases: (1.0, 1.0, 1.0) and (1.0, 0.0, 0.0).
C19_Witness ==
    /\ CompReturned
    /\ \E i, j \in DOMAIN fn.composite :
           /\ fn.set_scores[i] = 100 /\ fn.sort_scores[i] = 100
           /\ fn.partial_scores[i] = 100 /\ fn.composite[i] = 1000
           /\ fn.set_scores[j] = 100 /\ fn.sort_scores[j] = 0
           /\ fn.partial_scores[j] = 0 /\ fn.composite[j] = 400

\* The rows the call of p reads
RowsOf(p) == matchers[self[p]].sanctions_index

RanStage(p, stage) == \E i \in DOMAIN loc[p].phases : loc[p].phases[i] = stage

ResolvableOf(p, idxs) == SelectSeq(idxs, LAMBDA idx : Resolves(RowsOf(p), idx))

HasUnresolvable(p, idxs) == \E i \in DOMAIN idxs : ~Resolves(RowsOf(p), idxs[i])

\* C20: a selected position that resolves to no record is skipped and nothing
\* else: the call does not raise; the scored positions are exactly the
\* resolvable positions of the Stage 1 and Stage 2 selections, in order, each
\* with the data and the score of its own record; a finished call returns no
\* more matches than scored positions, and returns every scored candidate
\* that passes the filters and has fewer than top_k passing candidates
\* scoring at least as high.
C20_UnresolvableSkipped ==
    \A p \in Procs :
        RanStage(p, "stage1") =>
            /\ pc[p] # "raised"
            /\ loc[p].candidate_idx_map =
                   ResolvableOf(p, loc[p].candidates_to_score)
                       \o ResolvableOf(p, loc[p].additional_candidates)
            /\ Scored(p) = DOMAIN loc[p].candidate_idx_map
            /\ \A i \in Scored(p) :
                   LET c == iloc(RowsOf(p), loc[p].candidate_idx_map[i])
                   IN  /\ loc[p].candidate_metadata[i].uid = c.uid
                       /\ loc[p].candidate_metadata[i].name = c.name
                       /\ loc[p].composite_scores[i] =
                              4 * token_set_ratio(loc[p].query_norm, c.name_norm)
                              + 4 * token_sort_ratio(loc[p].query_norm, c.name_norm)
                              + 2 * partial_ratio(loc[p].query_norm, c.name_norm)
            /\ Done(p) =>
                   /\ Len(response[p].top_matches) <= Len(loc[p].candidate_idx_map)
                   /\ \A i \in Scored(p) :
                          ( /\ PassesFilters(query[p], loc[p].candidate_metadata[i])
                            /\ Cardinality(
                                   {j \in Scored(p) \ {i} :
                                       /\ PassesFilters(query[p],
                                                        loc[p].candidate_metadata[j])
                                       /\ loc[p].composite_scores[j]
                                              >= loc[p].composite_scores[i]})
                                   < query[p].top_k )
                          => \E k \in DOMAIN response[p].top_matches :
                                 response[p].top_matches[k].uid
                                     = loc[p].candidate_metadata[i].uid

\* A finished call skipped an unresolvable position in Stage 1 and one in
\* Stage 2, scored resolvable positions of both selections and returned a
\* match of each.
C20_Witness ==
    \E p \in Procs :
        /\ Done(p)
        /\ RanStage(p, "stage2")
        /\ HasUnresolvable(p, loc[p].candidates_to_score)
        /\ HasUnresolvable(p, loc[p].additional_candidates)
        /\ \E idx \in Range(ResolvableOf(p, loc[p].candidates_to_score)) :
               \E k \in DOMAIN response[p].top_matches :
                   response[p].top_matches[k].uid = iloc(RowsOf(p), idx).uid
        /\ \E idx \in Range(ResolvableOf(p, loc[p].additional_candidates)) :
               \E k \in DOMAIN response[p].top_matches :
                   response[p].top_matches[k].uid = iloc(RowsOf(p), idx).uid

\* A call whose selection held a position below the first row (counted from
\* the end) and none that resolves returned normally.
C20_WitnessBelowRange ==
    \E p \in Procs :
        /\ Done(p)
        /\ \E i \in DOMAIN loc[p].candidates_to_score :
               loc[p].candidates_to_score[i] < -Len(RowsOf(p))

\* C21: the status is 'unavailable' with loaded false and record_count 0, or
\* 'healthy' with loaded true, a matcher held and the record_count of that
\* matcher; is_loaded only with a matcher held; and a service that has become
\* healthy stays healthy.
C21_StatusFollowsLoad ==
    [][ /\ get_status.status = "unavailable" =>
               (~get_status.loaded /\ get_status.record_count = 0)
        /\ get_status.status = "healthy" =>
               /\ get_status.loaded
               /\ svc.matcher # None
               /\ get_status.record_count = Len(matchers[svc.matcher].sanctions_index)
        /\ is_loaded => svc.matcher # None
        /\ get_status.status = "healthy" => get_status'.status = "healthy" ]_vars

\* C22: per user, no more than max_requests checks are allowed between the
\* creation of the user's entry and its expiry or reset, whatever the other
\* users do; a denied check leaves the count alone; the remaining number is
\* max(0, max_requests - the number allowed).
C22_AtMostMaxRequests ==
    [][ fn.op = "RateLimiter" =>
          /\ \A u \in RateUsers :
                /\ fn.allowed[u] <= fn.max_requests
                /\ get_remaining(fn.cache, fn.max_requests, u)
                       = Max(0, fn.max_requests - fn.allowed[u])
          /\ (fn'.last.op = "check" /\ ~fn'.last.result) =>
                /\ fn'.cache = fn.cache
                /\ fn.allowed[fn'.last.user] >= fn.max_requests ]_vars

PriorityOf(p, idx) == CountOf(loc[p].priority_scores, idx)

HighPriority(p) ==
    SelectSeq(loc[p].candidate_indices, LAMBDA idx : PriorityOf(p, idx) >= 3)

\* C23: the Stage 1 selection is the first min(initial_candidates, N)
\* positions of the ranked candidate list: at most initial_candidates of
\* them, no lower-priority position before a high-priority one, and no
\* position taken while a higher-ranked one is left out.
C23_Stage1IsRankedPrefix ==
    \A p \in Procs :
        RanStage(p, "stage1") =>
            LET ranked == loc[p].candidate_indices
                chosen == loc[p].candidates_to_score
            IN  /\ \A i, j \in DOMAIN ranked :
                       i < j => PriorityOf(p, ranked[i]) >= PriorityOf(p, ranked[j])
                /\ chosen = SubSeq(ranked, 1,
                                   Min(lim[p].initial_candidates, Len(ranked)))
                /\ Len(chosen) <= lim[p].initial_candidates
                /\ \A i, j \in DOMAIN chosen :
                       (PriorityOf(p, chosen[i]) < 3 /\ PriorityOf(p, chosen[j]) >= 3)
                           => j < i
                /\ \A i, j \in DOMAIN ranked :
                       (j < i /\ ranked[i] \in Range(chosen))
                           => ranked[j] \in Range(chosen)

\* The first branch: the high-priority positions and some, not all, of the
\* others were selected.
C23_Witness ==
    \E p \in Procs :
        /\ RanStage(p, "stage1")
        /\ HighPriority(p) # <<>>
        /\ Len(HighPriority(p)) < lim[p].initial_candidates
        /\ lim[p].initial_candidates < Len(loc[p].candidate_indices)
        /\ Len(loc[p].candidates_to_score) = lim[p].initial_candidates

\* The second branch: more high-priority positions than initial_candidates.
C23_WitnessHighOnly ==
    \E p \in Procs :
        /\ RanStage(p, "stage1")
        /\ Len(HighPriority(p)) > lim[p].initial_candidates
        /\ Len(loc[p].candidates_to_score) = lim[p].initial_candidates

\* The third branch: no high-priority position, more candidates than
\* initial_candidates.
C23_WitnessNoHigh ==
    \E p \in Procs :
        /\ RanStage(p, "stage1")
        /\ HighPriority(p) = <<>>
        /\ Len(loc[p].candidate_indices) > lim[p].initial_candidates
        /\ Len(loc[p].candidates_to_score) = lim[p].initial_candidates

\* The call of p is past the decision on Stage 2
PastDecision(p) == RanStage(p, "stage1") /\ pc[p] \in {"rank", "emit", "done"}
                       /\ loc[p].candidate_idx_map # <<>>

InBand(p) ==
    loc[p].top_score >= EARLY_EXIT_THRESHOLD /\ loc[p].top_score < EXPAND_THRESHOLD

\* Candidates exist that the Stage 1 selection left out
CandidatesBeyondStage1(p) ==
    Range(loc[p].candidate_indices) \ Range(loc[p].candidates_to_score) # {}

\* C24: Stage 2 runs exactly when the best Stage 1 score is at least the
\* early-exit threshold and below the expand threshold and candidates exist
\* beyond the Stage 1 selection (thresholds at their defaults 0.60, 0.85).
C24_Stage2Condition ==
    \A p \in Procs :
        /\ RanStage(p, "stage2") => RanStage(p, "stage1")
        /\ PastDecision(p) =>
               /\ loc[p].top_score =
                      TopScore(SubSeq(loc[p].composite_scores, 1,
                                      Len(ResolvableOf(p, loc[p].candidates_to_score))))
               /\ RanStage(p, "stage2") <=> (InBand(p) /\ CandidatesBeyondStage1(p))

\* Stage 2 ran after a Stage 1 whose best score lay in the band.
C24_Witness ==
    \E p \in Procs :
        /\ Done(p)
        /\ RanStage(p, "stage2")
        /\ InBand(p)
        /\ loc[p].additional_candidates # <<>>

\* Stage 2 did not run: the best score reached the expand threshold, stayed
\* below the early-exit threshold, or no candidate was left.
C24_WitnessHigh ==
    \E p \in Procs :
        /\ PastDecision(p) /\ ~RanStage(p, "stage2")
        /\ loc[p].top_score >= EXPAND_THRESHOLD /\ CandidatesBeyondStage1(p)

C24_WitnessLow ==
    \E p \in Procs :
        /\ PastDecision(p) /\ ~RanStage(p, "stage2")
        /\ loc[p].top_score < EARLY_EXIT_THRESHOLD /\ CandidatesBeyondStage1(p)

C24_WitnessNoneLeft ==
    \E p \in Procs :
        /\ PastDecision(p) /\ ~RanStage(p, "stage2")
        /\ InBand(p) /\ ~CandidatesBeyondStage1(p)

\* The positions Stage 1 scored, and those Stage 2 scored
Stage1Scored(p) == ResolvableOf(p, loc[p].candidates_to_score)

Stage2Scored(p) ==
    SubSeq(loc[p].candidate_idx_map, Len(Stage1Scored(p)) + 1,
           Len(loc[p].candidate_idx_map))

\* C25: whatever initial_candidates and max_candidates are, Stage 2 scores at
\* most max_candidates - |Stage 1| positions, none of them scored in Stage 1,
\* and the call never scores more than max_candidates positions.
C25_ScoredWithinMax ==
    \A p \in Procs :
        RanStage(p, "stage1") =>
            /\ Len(loc[p].candidate_idx_map) <= lim[p].max_candidates
            /\ RanStage(p, "stage2") =>
                   /\ Len(Stage2Scored(p))
                          <= lim[p].max_candidates - Len(Stage1Scored(p))
                   /\ Range(Stage2Scored(p)) \cap Range(Stage1Scored(p)) = {}

\* Termination of match(): one caller, as in Next, with names of no, one and
\* three tokens and limits that run Stage 2 or skip it
NextLive ==
    \/ \E id \in MatcherIds : (\A p \in Procs : pc[p] = "idle") /\ InitializeLoad(id)
    \/ (\A p \in Procs : pc[p] = "idle") /\ InitializeFail
    \/ InitializeFinish
    \/ Call("p1",
            { <<>>, <<"A","l"," ","B","o">>, <<"d","y">>,
              <<"a","l"," ","d","y"," ","c","y">> },
            {NoneText}, Programs, {1, 2},
            {<<1, 3>>, <<3, 1>>, <<NumRecords + 4, NumRecords + 5>>})

MatchPositions == {"retrieve", "stage1", "decide", "rank", "emit"}

\* The call's position moves on. Every position inside match() has a step
\* guarded by the position alone (at "decide" the guards of Stage2 and
\* SkipStage2 are complementary), so the call can move on exactly when it is
\* inside match()
Advance(p) ==
    /\ pc[p] \in MatchPositions
    /\ \E next \in (MatchPositions \cup {"done", "raised"}) \ {pc[p]} :
           pc' = [pc EXCEPT ![p] = next]

\* match() is synchronous code without waits: once called, the interpreter
\* executes its next block
SpecLive == Init /\ [][NextLive]_vars /\ WF_pc(Advance("p1"))

IsPrefix(s, t) == Len(s) <= Len(t) /\ \A i \in DOMAIN s : s[i] = t[i]

\* The two full runs of match(), without and with Stage 2
PhasesTwoStage == <<"tokenize", "retrieve", "stage1", "stage2", "rank", "emit">>

PhasesOneStage == <<"tokenize", "retrieve", "stage1", "rank", "emit">>

InMatch(p) == pc[p] \in MatchPositions

\* One of the three zero-match returns fired: no tokens, no candidates, or no
\* candidate materialized in Stage 1
ZeroMatchReturn(p) ==
    \/ loc[p].phases = <<"tokenize">> /\ loc[p].query_tokens = <<>>
    \/ loc[p].phases = <<"tokenize", "retrieve">> /\ loc[p].candidate_indices = <<>>
    \/ /\ loc[p].phases = <<"tokenize", "retrieve", "stage1">>
       /\ loc[p].candidate_idx_map = <<>>

PhasesInOrder ==
    \A p \in Procs :
        /\ IsPrefix(loc[p].phases, PhasesTwoStage)
               \/ IsPrefix(loc[p].phases, PhasesOneStage)
        /\ InMatch(p) => response[p] = NoResponse
        /\ Done(p) =>
               /\ response[p] # NoResponse
               /\ \/ loc[p].phases \in {PhasesTwoStage, PhasesOneStage}
                  \/ ZeroMatchReturn(p) /\ response[p].top_matches = <<>>

\* The response of a call is written once, by the step that ends the call
ResponseWrittenOnce ==
    \A p \in Procs :
        response'[p] # response[p] =>
            \/ InMatch(p) /\ response[p] = NoResponse /\ pc'[p] = "done"
            \/ pc[p] = "ready" /\ response[p] = NoResponse /\ pc'[p] = "done"
            \/ pc[p] \in {"done", "raised"} /\ pc'[p] = "idle"
                   /\ response'[p] = NoResponse

\* C26: every match() call terminates with exactly one Response; its phases
\* occur only in the order tokenize, retrieve, Stage 1, optional Stage 2, rank,
\* emit; Stage 2 runs at most once and only after Stage 1; and a call in which
\* no zero-match return fired reaches emit.
C26_TerminatesInOrder ==
    /\ []PhasesInOrder
    /\ [][ResponseWrittenOnce]_vars
    /\ \A p \in Procs : InMatch(p) ~> Done(p)

C26_Witness ==
    \E p \in Procs : Done(p) /\ loc[p].phases = PhasesTwoStage

C26_WitnessOneStage ==
    \E p \in Procs : Done(p) /\ loc[p].phases = PhasesOneStage

C26_WitnessZeroMatch ==
    \E p \in Procs :
        /\ Done(p) /\ ZeroMatchReturn(p)
        /\ loc[p].phases = <<"tokenize", "retrieve", "stage1">>

\* The scored candidates of a call that pass the query's filters
Passing(p) ==
    {i \in Scored(p) : PassesFilters(query[p], loc[p].candidate_metadata[i])}

\* The Match a scored candidate gives
MatchOf(p, i) ==
    MakeMatch(loc[p].candidate_metadata[i], loc[p].composite_scores[i],
              loc[p].set_scores[i], loc[p].sort_scores[i], loc[p].partial_scores[i])

\* The ways to read the response as Matches of distinct scored candidates
\* that pass the filters
Origins(p) ==
    {f \in [DOMAIN response[p].top_matches -> Passing(p)] :
        /\ \A j, k \in DOMAIN f : j # k => f[j] # f[k]
        /\ \A k \in DOMAIN f : response[p].top_matches[k] = MatchOf(p, f[k])}

\* C27: the response holds the top_k best scored candidates that pass the
\* filters: no passing candidate left out has a composite score strictly
\* greater than a returned match, and with fewer than top_k matches every
\* passing candidate is in the response.
C27_TopKBestPassing ==
    \A p \in Procs :
        Done(p) =>
            \E f \in Origins(p) :
                LET returned == {f[k] : k \in DOMAIN f}
                IN  /\ \A i \in Passing(p) \ returned, j \in returned :
                           loc[p].composite_scores[i] <= loc[p].composite_scores[j]
                    /\ Len(response[p].top_matches) < query[p].top_k =>
                           returned = Passing(p)
                    /\ Len(response[p].top_matches) <= query[p].top_k

\* top_k matches returned, a passing candidate with a lower score left out,
\* and a candidate with a higher score than a returned match filtered out
C27_Witness ==
    \E p \in Procs :
        /\ Done(p)
        /\ Len(response[p].top_matches) = query[p].top_k
        /\ \E f \in Origins(p) :
               LET returned == {f[k] : k \in DOMAIN f}
               IN  /\ \E i \in Passing(p) \ returned, j \in returned :
                          loc[p].composite_scores[i] < loc[p].composite_scores[j]
                   /\ \E i \in Scored(p) \ Passing(p), j \in returned :
                          loc[p].composite_scores[i] > loc[p].composite_scores[j]

\* Fewer than top_k matches: every passing candidate returned, one filtered out
C27_WitnessFewer ==
    \E p \in Procs :
        /\ Done(p)
        /\ Len(response[p].top_matches) < query[p].top_k
        /\ Len(response[p].top_matches) >= 2
        /\ Scored(p) \ Passing(p) # {}

\* The entry i of the call's parallel lists holds the data and the three
\* ratios of the record at position candidate_idx_map[i]
AlignedAt(p, i) ==
    LET c == iloc(RowsOf(p), loc[p].candidate_idx_map[i])
        sim == compute_similarity_batch(loc[p].query_norm, <<c.name_norm>>)
    IN  /\ loc[p].candidate_metadata[i] =
               [uid |-> c.uid, name |-> c.name, country |-> c.country,
                program |-> c.program, source |-> c.source]
        /\ loc[p].set_scores[i] = sim.set_scores[1]
        /\ loc[p].sort_scores[i] = sim.sort_scores[1]
        /\ loc[p].partial_scores[i] = sim.partial_scores[1]
        /\ loc[p].composite_scores[i] =
               composite_score_batch(sim.set_scores, sim.sort_scores,
                                     sim.partial_scores)[1]

ListsAligned(p) ==
    /\ DOMAIN loc[p].candidate_metadata = DOMAIN loc[p].candidate_idx_map
    /\ DOMAIN loc[p].set_scores = DOMAIN loc[p].candidate_idx_map
    /\ DOMAIN loc[p].sort_scores = DOMAIN loc[p].candidate_idx_map
    /\ DOMAIN loc[p].partial_scores = DOMAIN loc[p].candidate_idx_map
    /\ DOMAIN loc[p].composite_scores = DOMAIN loc[p].candidate_idx_map
    /\ \A i \in DOMAIN loc[p].candidate_idx_map : AlignedAt(p, i)

\* C28: every Match of a response takes all its fields from one record
\* position, and no position yields more than one Match; the parallel lists
\* stay aligned after Stage 2 appended and after positions were skipped.
C28_MatchFromOnePosition ==
    \A p \in Procs :
        /\ RanStage(p, "stage1") /\ pc[p] # "stage1" => ListsAligned(p)
        /\ Done(p) =>
               /\ DuplicateFree(loc[p].candidate_idx_map)
               /\ Origins(p) # {}

\* Stage 2 appended, positions were skipped in both stages, two matches
C28_Witness ==
    \E p \in Procs :
        /\ Done(p) /\ RanStage(p, "stage2") /\ Len(Stage2Scored(p)) > 0
        /\ HasUnresolvable(p, loc[p].candidates_to_score)
        /\ HasUnresolvable(p, loc[p].additional_candidates)
        /\ Len(response[p].top_matches) >= 2

\* Two positions of one record: two Matches with the same uid
C28_WitnessSameRecord ==
    \E p \in Procs :
        /\ Done(p)
        /\ \E j, k \in DOMAIN response[p].top_matches :
               j # k /\ response[p].top_matches[j].uid = response[p].top_matches[k].uid

\* The ranking of everything the call scored: the Matches of all its scored
\* candidates in the order of the sort, no filter and no top_k applied
UnfilteredRanking(p) ==
    LET sorted_indices ==
            ArgsortDesc(loc[p].composite_scores, DOMAIN loc[p].composite_scores)
    IN  [k \in DOMAIN sorted_indices |-> MatchOf(p, sorted_indices[k])]

\* The first top_k elements of a ranking that pass the filters of q
FirstPassing(q, ranking) ==
    LET passing == SelectSeq(ranking, LAMBDA c : PassesFilters(q, c))
    IN  SubSeq(passing, 1, IF q.top_k < Len(passing) THEN q.top_k ELSE Len(passing))

\* The queries for the same name with other filters and another top_k
QueryVariants(q) ==
    {[q EXCEPT !.country = country, !.program = program, !.top_k = top_k] :
        country \in Countries, program \in Programs,
        top_k \in {k \in {q.top_k + 1, MAX_TOP_K} : k <= MAX_TOP_K}}

\* C29: for a fixed name and index, the scored candidates, their scores and
\* the running of Stage 2 do not depend on country, program or top_k: the
\* response to every variant of the query is the first top_k elements of one
\* and the same unfiltered ranking that pass the variant's filters, and the
\* response for top_k = k is a prefix of the response for top_k = k + 1.
C29_FiltersDoNotSteerScoring ==
    \A p \in Procs :
        Done(p) =>
            /\ response[p].top_matches = FirstPassing(query[p], UnfilteredRanking(p))
            /\ \A q \in QueryVariants(query[p]) :
                   LET other == MatchAlone(q, lim[p], matchers[self[p]]).top_matches
                   IN  /\ other = FirstPassing(q, UnfilteredRanking(p))
                       /\ (q.country = query[p].country /\ q.program = query[p].program
                              /\ q.top_k = query[p].top_k + 1)
                              => IsPrefix(response[p].top_matches, other)

\* A filtered response shorter than the ranking, after Stage 2 ran, that the
\* response for the next top_k extends by one match
C29_Witness ==
    \E p \in Procs :
        /\ Done(p) /\ RanStage(p, "stage2")
        /\ FilterSet(query[p].country) \/ FilterSet(query[p].program)
        /\ \E i \in Scored(p) : ~PassesFilters(query[p], loc[p].candidate_metadata[i])
        /\ Len(response[p].top_matches) = query[p].top_k
        /\ query[p].top_k < MAX_TOP_K
        /\ Len(MatchAlone([query[p] EXCEPT !.top_k = @ + 1], lim[p],
                          matchers[self[p]]).top_matches) = query[p].top_k + 1

\* A name that SanctionsQuery rejects is among the names a request screens:
\* the primary name or one of aliases[:5] (top_k is the valid default)
HasBlankName(name, aliases) ==
    \/ QueryInvalid(name, 3)
    \/ \E k \in DOMAIN AliasesToScreen(aliases) :
           QueryInvalid(AliasesToScreen(aliases)[k], 3)

\* What screen_name must return for a request, given is_loaded at the call
ResultFits(name, aliases, nationality, loaded, result) ==
    /\ result.returned
    /\ IF ~loaded
       THEN result = FailureResult("Sanctions screener not loaded")
       ELSE IF HasBlankName(name, aliases)
       THEN result = FailureResult("ValueError")
       ELSE /\ result.success /\ result.errors = <<>>
            /\ result.data[1].query_name = name
            /\ result.data[1].applied_filters.country = nationality

\* C30: screen_name never raises: not loaded gives success = false with
\* "Sanctions screener not loaded" and no matcher call; a step that raises
\* (a blank primary name or alias) gives success = false with the error and no
\* match data, never a partial list; screen_batch returns one result per
\* query, in input order.
C30_ScreenNeverRaises ==
    /\ scr.pc = "done" =>
           /\ ResultFits(scr.name, scr.aliases, scr.nationality, is_loaded, scr.result)
           /\ ~scr.result.success => scr.result.data = <<>> /\ Len(scr.result.errors) = 1
           /\ ~is_loaded => scr.calls = <<>> /\ \A p \in Procs : pc[p] = "idle"
    /\ \A p \in Procs : pc[p] # "raised"
    /\ fn.pc = "returned" =>
           /\ Len(fn.results) = Len(fn.queries)
           /\ \A i \in DOMAIN fn.queries :
                  ResultFits(fn.queries[i].name, fn.queries[i].aliases,
                             fn.queries[i].nationality, fn.loaded, fn.results[i])

\* A batch of two on a loaded service: the first query's alias is blank (its
\* primary name has matches), the second succeeds with matches
C30_Witness ==
    /\ fn.pc = "returned" /\ fn.loaded /\ Len(fn.queries) = 2
    /\ ~QueryInvalid(fn.queries[1].name, 3)
    /\ HasBlankName(fn.queries[1].name, fn.queries[1].aliases)
    /\ ~fn.results[1].success /\ fn.results[1].data = <<>>
    /\ fn.results[2].success /\ fn.results[2].data[1].all_matches # <<>>

\* The except branch discards the matches of the primary name
C30_WitnessDiscarded ==
    /\ scr.pc = "done" /\ ~scr.result.success /\ scr.result.data = <<>>
    /\ scr.all_matches # <<>>

\* A batch on a service that is not loaded
C30_WitnessNotLoaded ==
    /\ fn.pc = "returned" /\ ~fn.loaded /\ Len(fn.queries) = 2
    /\ \A i \in 1..2 : fn.results[i].errors = <<"Sanctions screener not loaded">>

=============================================================================
